---- MODULE Spec2Model ----
(***************************************************************************)
(* Restaurant-reservation REST API (Express + mongoose + jsonwebtoken).    *)
(* State machine of the request pipeline (authMiddleware, checkRole,       *)
(* validators, controllers), of the entity services and of the document    *)
(* store they act on.                                                      *)
(***************************************************************************)
EXTENDS Integers, Sequences, FiniteSets, TLC

VARIABLES
    users,         \* collection 'users': sequence of documents, _id = index
    restaurants,   \* collection 'restaurants'
    reservations,  \* collection 'reservations'
    now,           \* wall clock, in hours
    jwtSecretEnv,  \* process.env.JWT_SECRET: <<>> unset, <<s>> set to s
    issued,        \* tokens handed out by login so far
    chain,         \* middleware chain of the request being served
    pc,            \* index in chain of the next middleware; 0: none running
    req,           \* the request: route, authorization header, params, body
    reqUser,       \* req.user: <<>> unset, <<payload>> set
    res,           \* responses sent for this request, in order
    passed,        \* middlewares of this request that called next(), in order
    verified,      \* arguments of jwt.verify calls of this request
    storeOps,      \* store reads and writes made while serving this request
    call,          \* last service call: operation, argument object, result
    served,        \* requests received (service calls made) since startup
    inflight,      \* service calls in progress: position, input, result of each
    startup,       \* the process: position in index.ts / connectionDB.ts, what is up
    resultCalls    \* methods called on validationResult(req) for this request

vars == <<users, restaurants, reservations, now, jwtSecretEnv, issued,
          chain, pc, req, reqUser, res, passed, verified, storeOps, served, call,
          inflight, startup, resultCalls>>

storeVars == <<users, restaurants, reservations>>

----------------------------------------------------------------------------
(* Bounds of the model *)

MaxTime == 1

MaxUsers == 3

MaxRestaurants == 2

MaxReservations == 1

MaxTokens == 1

MaxRequests == 2

MaxCalls == 3

MaxInflight == 2

MaxStartups == 2

----------------------------------------------------------------------------
(* Values *)

NULL == <<>>

Some(x) == <<x>>

UserRole == [ADMIN |-> "admin", USER |-> "user"]

Roles == {UserRole.ADMIN, UserRole.USER}

\* A JavaScript value found in a token payload's roles field.
RolesArray(s) == [t |-> "array", v |-> s]

RolesString(s) == [t |-> "string", v |-> <<s>>]

RolesUndefined == [t |-> "undefined", v |-> <<>>]

IsArray(r) == r.t = "array"

\* JavaScript truthiness of a roles value: undefined and '' are falsy, every
\* array (the empty one included) is truthy.
Truthy(r) == r.t = "array" \/ (r.t = "string" /\ r.v # <<"">>)

Includes(r, x) == \E i \in 1..Len(r.v) : r.v[i] = x

DefaultSecret == "defaultSecret"

\* expiresIn: '1h'; the clock counts hours.
ExpiresIn == 1

ResolveSecret(env) == IF env = NULL \/ env = Some("") THEN DefaultSecret ELSE env[1]

----------------------------------------------------------------------------
(* JSON Web Tokens (jsonwebtoken), as the middleware and the auth service use them *)

\* A signed token: the payload {id, roles}, the claims iat and exp that
\* sign() adds, and the key it was signed with.
Jwt(id, roles, iat, exp, key) ==
    [id |-> id, roles |-> roles, iat |-> iat, exp |-> exp, key |-> key]

\* jwt.sign(payload, secret, {expiresIn: '1h'}) at time t.
JwtSign(payload, secret, t) ==
    Jwt(payload.id, payload.roles, t, t + ExpiresIn, secret)

\* An Authorization header is a string: a sequence of atoms, each a word, one
\* space, or a signed token.
Word(s) == [ch |-> s, jwt |-> NULL]

SP == Word(" ")

Tok(j) == [ch |-> "jwt", jwt |-> Some(j)]

\* String.prototype.split(' '): the parts between the spaces, empty parts kept.
RECURSIVE Split(_)
Split(s) ==
    IF \A i \in 1..Len(s) : s[i] # SP THEN <<s>>
    ELSE LET k == CHOOSE i \in 1..Len(s) :
                      s[i] = SP /\ \A j \in 1..(i - 1) : s[j] # SP
         IN <<SubSeq(s, 1, k - 1)>> \o Split(SubSeq(s, k + 1, Len(s)))

\* A faulty variant: the second part only when the first is exactly 'Bearer'.
AuthTokenBearerOnly(authorization) ==
    IF authorization = NULL THEN NULL
    ELSE LET parts == Split(authorization[1])
         IN IF Len(parts) >= 2 /\ parts[1] = <<Word("Bearer")>>
            THEN Some(parts[2]) ELSE NULL

\* req.headers.authorization?.split(' ')[1]: <<>> when undefined, else <<part>>.
AuthToken(authorization) ==
    IF authorization = NULL THEN NULL
    ELSE LET parts == Split(authorization[1])
         IN IF Len(parts) >= 2 THEN Some(parts[2]) ELSE NULL

\* !token: undefined or the empty string.
NoToken(token) == token = NULL \/ token[1] = <<>>

\* jwt.verify(token, secretKey) at time t: the decoded payload, or a failure
\* (malformed, bad signature, expired).
JwtVerify(token, secretKey, t) ==
    IF Len(token) # 1 \/ token[1].jwt = NULL
    THEN [ok |-> FALSE, error |-> "jwt malformed", decoded |-> NULL]
    ELSE LET j == token[1].jwt[1] IN
         IF j.key # secretKey
         THEN [ok |-> FALSE, error |-> "invalid signature", decoded |-> NULL]
         ELSE IF t >= j.exp
         THEN [ok |-> FALSE, error |-> "jwt expired", decoded |-> NULL]
         ELSE [ok |-> TRUE, error |-> "",
               decoded |-> Some([id |-> j.id, roles |-> j.roles,
                                 iat |-> j.iat, exp |-> j.exp])]

----------------------------------------------------------------------------
(* HTTP responses and the middleware chain *)

Message(m) == [kind |-> "message", message |-> m, data |-> <<>>]

Json(d) == [kind |-> "json", message |-> "", data |-> <<d>>]

Empty == [kind |-> "empty", message |-> "", data |-> <<>>]

Response(status, body) == [status |-> status, body |-> body]

Running == pc \in 1..Len(chain)

Mw(name, arg) == [mw |-> name, arg |-> arg]

At(name) == Running /\ chain[pc].mw = name

\* A faulty variant: the response is sent without return, next() follows.
Reject_thenNext(status, body) ==
    /\ res' = Append(res, Response(status, body))
    /\ pc' = pc + 1
    /\ passed' = Append(passed, chain[pc].mw)

\* return res.status(s).json(body): the middleware answers and stops the chain.
Reject(status, body) ==
    /\ res' = Append(res, Response(status, body))
    /\ pc' = 0
    /\ passed' = passed

\* next()
CallNext(name) ==
    /\ passed' = Append(passed, name)
    /\ pc' = pc + 1
    /\ res' = res

\* A faulty variant of authMiddleware: the token's user is looked up and a
\* token whose user is missing or soft-deleted is refused.
authMiddleware_activeUser ==
    /\ At("authMiddleware")
    /\ LET token == AuthToken(req.authorization) IN
       IF NoToken(token)
       THEN /\ Reject(401, Message("Access denied. No token provided."))
            /\ UNCHANGED <<reqUser, verified>>
       ELSE LET secretKey == ResolveSecret(jwtSecretEnv)
                r == JwtVerify(token[1], secretKey, now)
                active == /\ r.ok
                          /\ r.decoded[1].id \in 1..Len(users)
                          /\ users[r.decoded[1].id].deletedAt = <<>>
            IN /\ verified' = Append(verified, token[1])
               /\ IF active
                  THEN /\ reqUser' = r.decoded
                       /\ CallNext("authMiddleware")
                  ELSE /\ Reject(403, Message("Invalid token."))
                       /\ reqUser' = reqUser
    /\ UNCHANGED <<storeVars, now, jwtSecretEnv, issued, chain, req, storeOps, call, served,
                   inflight, startup, resultCalls>>

authMiddleware ==
    /\ At("authMiddleware")
    /\ LET token == AuthToken(req.authorization) IN
       IF NoToken(token)
       THEN /\ Reject(401, Message("Access denied. No token provided."))
            /\ UNCHANGED <<reqUser, verified>>
       ELSE LET secretKey == ResolveSecret(jwtSecretEnv)
                r == JwtVerify(token[1], secretKey, now)
            IN /\ verified' = Append(verified, token[1])
               /\ IF r.ok
                  THEN /\ reqUser' = r.decoded
                       /\ CallNext("authMiddleware")
                  ELSE /\ Reject(403, Message("Invalid token."))
                       /\ reqUser' = reqUser
    /\ UNCHANGED <<storeVars, now, jwtSecretEnv, issued, chain, req, storeOps, call, served,
                   inflight, startup, resultCalls>>

\* Faulty variants of the decision of checkRole: an empty array counted as no
\* roles; any non-empty array let through; no Array.isArray test.
CheckRoleEmptyIsNoRoles(user, requiredRole) ==
    IF user = NULL \/ ~Truthy(user[1].roles) \/ ~IsArray(user[1].roles)
       \/ user[1].roles.v = <<>>
    THEN "Access denied. No roles found."
    ELSE IF ~Includes(user[1].roles, requiredRole)
    THEN "Access denied."
    ELSE "next"

CheckRoleAnyRole(user, requiredRole) ==
    IF user = NULL \/ ~Truthy(user[1].roles) \/ ~IsArray(user[1].roles)
    THEN "Access denied. No roles found."
    ELSE IF user[1].roles.v = <<>>
    THEN "Access denied."
    ELSE "next"

CheckRoleDecision_noIsArray(user, requiredRole) ==
    IF user = NULL \/ ~Truthy(user[1].roles)
    THEN "Access denied. No roles found."
    ELSE IF ~Includes(user[1].roles, requiredRole)
    THEN "Access denied."
    ELSE "next"

\* The decision of checkRole(requiredRole) on req.user: "next" or the message
\* of the 403.
CheckRoleDecision(user, requiredRole) ==
    IF user = NULL \/ ~Truthy(user[1].roles) \/ ~IsArray(user[1].roles)
    THEN "Access denied. No roles found."
    ELSE IF ~Includes(user[1].roles, requiredRole)
    THEN "Access denied."
    ELSE "next"

checkRole ==
    /\ At("checkRole")
    /\ LET requiredRole == chain[pc].arg
           d == CheckRoleDecision(reqUser, requiredRole)
       IN IF d = "next" THEN CallNext("checkRole")
          ELSE Reject(403, Message(d))
    /\ UNCHANGED <<storeVars, now, jwtSecretEnv, issued, chain, req, reqUser,
                   verified, storeOps, call, served, inflight, startup, resultCalls>>

----------------------------------------------------------------------------
(* The document store (mongoose models) *)

Has(o, f) == f \in DOMAIN o

Without(o, f) == [g \in DOMAIN o \ {f} |-> o[g]]

\* Results of a call: a returned value or a thrown error.
Return(v) == [t |-> "return", v |-> <<v>>, name |-> "", message |-> ""]

Throw(name, message) == [t |-> "throw", v |-> <<>>, name |-> name, message |-> message]

Returned(r) == r.t = "return"

\* bcrypt.hash(plain, 10) and bcrypt.compare(plain, hash)
BcryptHash(plain) == "bcrypt(" \o plain \o ")"

BcryptCompare(plain, hash) == hash = BcryptHash(plain)

\* A path or body id is a number: n >= 1 is the 24-hex-digit ObjectId string
\* of the n-th document of a collection (stored or not), 0 a string that is
\* no ObjectId.
IsObjectId(id) == id >= 1

\* Model.findById(id), Model.findOne({_id: id}): CastError on a string that
\* is no ObjectId.
FindById(coll, id) ==
    IF ~IsObjectId(id) THEN Throw("CastError", "Cast to ObjectId failed")
    ELSE IF id \in 1..Len(coll) THEN Return(Some(coll[id]))
    ELSE Return(NULL)

Active(doc) == doc.deletedAt = NULL

\* A faulty variant: find() without the deletedAt filter.
FindActive_unfiltered(coll) == coll

\* Model.find({deletedAt: null}): the matching documents, in store order.
FindActive(coll) == SelectSeq(coll, Active)

\* A faulty variant: a schema without the timestamps option.
SchemaPatch_noTimestamps(doc, update, t) ==
    [f \in DOMAIN doc |->
        IF f = "_id" THEN doc[f]
        ELSE IF Has(update, f) THEN update[f]
        ELSE doc[f]]

\* Model.findOneAndUpdate({_id: id}, update) / findByIdAndUpdate(id, update):
\* $set of the schema's fields named in update, updatedAt by the schema's
\* timestamps option; the collection's unique index (users: email, restaurants:
\* nit, reservations: _id only) rejects a duplicate. Returns the store and the
\* document before and after.
SchemaPatch(doc, update, t) ==
    [f \in DOMAIN doc |->
        IF f = "_id" THEN doc[f]
        ELSE IF Has(update, f) THEN update[f]
        ELSE IF f = "updatedAt" THEN t
        ELSE doc[f]]

\* A faulty variant: a collection without the unique index.
FindOneAndUpdate_noIndex(coll, id, update, t, unique) ==
    IF ~IsObjectId(id)
    THEN [store |-> coll, r |-> Throw("CastError", "Cast to ObjectId failed"),
          before |-> NULL, after |-> NULL]
    ELSE IF id \in 1..Len(coll)
    THEN LET doc == SchemaPatch(coll[id], update, t)
         IN [store |-> [coll EXCEPT ![id] = doc], r |-> Return(TRUE),
             before |-> Some(coll[id]), after |-> Some(doc)]
    ELSE [store |-> coll, r |-> Return(TRUE), before |-> NULL, after |-> NULL]

FindOneAndUpdate(coll, id, update, t, unique) ==
    IF ~IsObjectId(id)
    THEN [store |-> coll, r |-> Throw("CastError", "Cast to ObjectId failed"),
          before |-> NULL, after |-> NULL]
    ELSE IF id \in 1..Len(coll)
    THEN LET doc == SchemaPatch(coll[id], update, t)
         IN IF \E i \in 1..Len(coll) : i # id /\ coll[i][unique] = doc[unique]
            THEN [store |-> coll, r |-> Throw("MongoServerError", "E11000 duplicate key"),
                  before |-> NULL, after |-> NULL]
            ELSE [store |-> [coll EXCEPT ![id] = doc], r |-> Return(TRUE),
                  before |-> Some(coll[id]), after |-> Some(doc)]
    ELSE [store |-> coll, r |-> Return(TRUE), before |-> NULL, after |-> NULL]

\* password: {select: false}: queries leave the password out unless asked.
Select(doc, withPassword) == IF withPassword THEN doc ELSE Without(doc, "password")

SelectOpt(opt, withPassword) ==
    IF opt = NULL THEN NULL ELSE Some(Select(opt[1], withPassword))

\* UserModel.create(doc): required name, email, password; roles default
\* [user]; deletedAt default null; unique index on email.
UserModelCreate(coll, doc, t) ==
    IF \E f \in {"name", "email", "password"} : ~Has(doc, f) \/ doc[f] = ""
    THEN [store |-> coll, r |-> Throw("ValidationError", "User validation failed"),
          doc |-> NULL]
    ELSE IF \E i \in 1..Len(coll) : coll[i].email = doc.email
    THEN [store |-> coll, r |-> Throw("MongoServerError", "E11000 duplicate key"),
          doc |-> NULL]
    ELSE LET d == [_id |-> Len(coll) + 1, name |-> doc.name, email |-> doc.email,
                   password |-> doc.password,
                   roles |-> IF Has(doc, "roles") THEN doc.roles ELSE <<UserRole.USER>>,
                   deletedAt |-> NULL, updatedAt |-> t]
         IN [store |-> Append(coll, d), r |-> Return(TRUE), doc |-> Some(d)]

\* A faulty variant: a restaurants collection without the unique index.
RestaurantModelCreate_noIndex(coll, doc, t) ==
    IF \E f \in {"name", "address", "city", "nit", "phone"} : ~Has(doc, f) \/ doc[f] = ""
    THEN [store |-> coll, r |-> Throw("ValidationError", "Restaurant validation failed"),
          doc |-> NULL]
    ELSE LET d == [_id |-> Len(coll) + 1, name |-> doc.name, address |-> doc.address,
                   city |-> doc.city, nit |-> doc.nit, phone |-> doc.phone,
                   deletedAt |-> NULL, updatedAt |-> t]
         IN [store |-> Append(coll, d), r |-> Return(TRUE), doc |-> Some(d)]

\* RestaurantModel.create(doc): all five fields required; unique index on nit.
RestaurantModelCreate(coll, doc, t) ==
    IF \E f \in {"name", "address", "city", "nit", "phone"} : ~Has(doc, f) \/ doc[f] = ""
    THEN [store |-> coll, r |-> Throw("ValidationError", "Restaurant validation failed"),
          doc |-> NULL]
    ELSE IF \E i \in 1..Len(coll) : coll[i].nit = doc.nit
    THEN [store |-> coll, r |-> Throw("MongoServerError", "E11000 duplicate key"),
          doc |-> NULL]
    ELSE LET d == [_id |-> Len(coll) + 1, name |-> doc.name, address |-> doc.address,
                   city |-> doc.city, nit |-> doc.nit, phone |-> doc.phone,
                   deletedAt |-> NULL, updatedAt |-> t]
         IN [store |-> Append(coll, d), r |-> Return(TRUE), doc |-> Some(d)]

\* ReservationModel.create(doc): all six fields required.
ReservationModelCreate(coll, doc, t) ==
    IF \/ \E f \in {"date", "hour", "status"} : ~Has(doc, f) \/ doc[f] = ""
       \/ \E f \in {"restaurantId", "userId", "userQuantity"} : ~Has(doc, f)
    THEN [store |-> coll, r |-> Throw("ValidationError", "Reservation validation failed"),
          doc |-> NULL]
    ELSE IF ~IsObjectId(doc.restaurantId) \/ ~IsObjectId(doc.userId)
    THEN [store |-> coll, r |-> Throw("ValidationError", "Cast to ObjectId failed"),
          doc |-> NULL]
    ELSE LET d == [_id |-> Len(coll) + 1, date |-> doc.date, hour |-> doc.hour,
                   restaurantId |-> doc.restaurantId, userId |-> doc.userId,
                   userQuantity |-> doc.userQuantity, status |-> doc.status,
                   deletedAt |-> NULL, updatedAt |-> t]
         IN [store |-> Append(coll, d), r |-> Return(TRUE), doc |-> Some(d)]

----------------------------------------------------------------------------
(* Services. Each operator is one call: the collection after it, what it   *)
(* returns or throws, and the number of store operations it made.          *)

Out(store, ret, ops) == [store |-> store, ret |-> ret, ops |-> ops]

\* JSON.parse(JSON.stringify(o)) of an object of strings: a new object with
\* the same fields, so that writes to it do not reach o.
JsonClone(o) == [f \in DOMAIN o |-> o[f]]

\* UserService.findByEmail
findByEmail(us, email, password) ==
    LET hit == {i \in 1..Len(us) : us[i].email = email}
    IN IF hit = {} THEN NULL
       ELSE Some(Select(us[CHOOSE i \in hit : \A j \in hit : i <= j], password))

\* A faulty variant of UserService.create: the bcrypt.hash step is left out.
userService_create_storesPlaintext(us, userInput, t) ==
    LET userExists == findByEmail(us, userInput.email, FALSE) IN
    IF userExists # NULL
    THEN [store |-> us, ret |-> Throw("ReferenceError", "User already exists"),
          ops |-> 1, arg |-> userInput, hashed |-> <<>>]
    ELSE LET createdUser == UserModelCreate(us, JsonClone(userInput), t)
         IN [store |-> createdUser.store,
             ret |-> IF Returned(createdUser.r)
                     THEN Return(Without(createdUser.doc[1], "password"))
                     ELSE createdUser.r,
             ops |-> 2, arg |-> userInput, hashed |-> <<>>]

\* UserService.create: also the caller's object after the call (arg) and the
\* plaintexts handed to bcrypt.hash (hashed).
userService_create(us, userInput, t) ==
    LET userExists == findByEmail(us, userInput.email, FALSE) IN
    IF userExists # NULL
    THEN [store |-> us, ret |-> Throw("ReferenceError", "User already exists"),
          ops |-> 1, arg |-> userInput, hashed |-> <<>>]
    ELSE LET copy == JsonClone(userInput)
             hash == Has(copy, "password") /\ copy.password # ""
             newUser == IF hash
                        THEN [copy EXCEPT !.password = BcryptHash(copy.password)]
                        ELSE copy
             createdUser == UserModelCreate(us, newUser, t)
         IN [store |-> createdUser.store,
             ret |-> IF Returned(createdUser.r)
                     THEN Return(Without(createdUser.doc[1], "password"))
                     ELSE createdUser.r,
             ops |-> 2, arg |-> userInput,
             hashed |-> IF hash THEN <<copy.password>> ELSE <<>>]

\* UserService.update
userService_update(us, id, userInput, t) ==
    LET u == FindOneAndUpdate(us, id, userInput, t, "email")
    IN Out(u.store, IF Returned(u.r) THEN Return(SelectOpt(u.after, FALSE)) ELSE u.r, 1)

\* UserService.getAll
userService_getAll(us) ==
    Out(us, Return([i \in 1..Len(FindActive(us)) |-> Select(FindActive(us)[i], FALSE)]), 1)

\* UserService.getById
userService_getById(us, id) ==
    LET f == FindById(us, id)
    IN Out(us, IF Returned(f) THEN Return(SelectOpt(f.v[1], FALSE)) ELSE f, 1)

\* A faulty variant of UserService.delete: deleting a soft-deleted user makes
\* it active again.
userService_delete_toggles(us, id, t) ==
    LET restore == id \in 1..Len(us) /\ us[id].deletedAt # NULL
        u == FindOneAndUpdate(us, id,
                 [deletedAt |-> IF restore THEN NULL ELSE Some(t)], t, "email")
    IN Out(u.store, IF Returned(u.r) THEN Return(u.before # NULL) ELSE u.r, 1)

\* UserService.delete
userService_delete(us, id, t) ==
    LET u == FindOneAndUpdate(us, id, [deletedAt |-> Some(t)], t, "email")
    IN Out(u.store, IF Returned(u.r) THEN Return(u.before # NULL) ELSE u.r, 1)

\* A faulty variant of generateToken: signs with JWT_SECRET as it is, without
\* the default the middleware falls back to.
generateToken_rawEnvSecret(user, env, t) ==
    JwtSign([id |-> user._id, roles |-> RolesArray(user.roles)],
            IF env = NULL THEN "" ELSE env[1], t)

\* AuthService.generateToken
generateToken(user, env, t) ==
    JwtSign([id |-> user._id, roles |-> RolesArray(user.roles)], ResolveSecret(env), t)

\* A faulty variant of AuthService.login: the result of bcrypt.compare is
\* not looked at.
authService_login_anyPassword(us, userLogin, env, t) ==
    LET userExists == findByEmail(us, userLogin.email, TRUE) IN
    IF userExists = NULL
    THEN [ret |-> Throw("ReferenceError", "Not Authorized"), ops |-> 1,
          compared |-> FALSE, token |-> NULL]
    ELSE IF ~Has(userLogin, "password")
    THEN [ret |-> Throw("Error", "data and hash arguments required"), ops |-> 1,
          compared |-> TRUE, token |-> NULL]
    ELSE LET token == generateToken(userExists[1], env, t)
         IN [ret |-> Return([id |-> userExists[1]._id,
                             roles |-> userExists[1].roles,
                             token |-> token]),
             ops |-> 1, compared |-> TRUE, token |-> Some(token)]

\* AuthService.login: also the token it issued (<<>> when none).
authService_login(us, userLogin, env, t) ==
    LET userExists == findByEmail(us, userLogin.email, TRUE) IN
    IF userExists = NULL
    THEN [ret |-> Throw("ReferenceError", "Not Authorized"), ops |-> 1,
          compared |-> FALSE, token |-> NULL]
    ELSE IF ~Has(userLogin, "password")
    THEN [ret |-> Throw("Error", "data and hash arguments required"), ops |-> 1,
          compared |-> TRUE, token |-> NULL]
    ELSE IF ~BcryptCompare(userLogin.password, userExists[1].password)
    THEN [ret |-> Throw("ReferenceError", "Not Authorized"), ops |-> 1,
          compared |-> TRUE, token |-> NULL]
    ELSE LET token == generateToken(userExists[1], env, t)
         IN [ret |-> Return([id |-> userExists[1]._id,
                             roles |-> userExists[1].roles,
                             token |-> token]),
             ops |-> 1, compared |-> TRUE, token |-> Some(token)]

\* A faulty variant of RestaurantService.create: no exists() check, the
\* unique index alone refuses the duplicate.
restaurantService_create_noCheck(rs, restaurantInput, t) ==
    LET c == RestaurantModelCreate(rs, restaurantInput, t)
    IN Out(c.store, IF Returned(c.r) THEN Return(c.doc[1]) ELSE c.r, 1)

\* A faulty variant of RestaurantService.create: exists() looks among the
\* active restaurants only.
restaurantService_create_activeOnly(rs, restaurantInput, t) ==
    LET restaurantExists ==
            \E i \in 1..Len(rs) :
                rs[i].deletedAt = <<>> /\ rs[i].nit = restaurantInput.nit
    IN
    IF restaurantExists
    THEN Out(rs, Throw("ReferenceError", "Restaurant already exist"), 1)
    ELSE LET c == RestaurantModelCreate(rs, restaurantInput, t)
         IN Out(c.store, IF Returned(c.r) THEN Return(c.doc[1]) ELSE c.r, 2)

\* RestaurantService.create
restaurantService_create(rs, restaurantInput, t) ==
    LET restaurantExists == \E i \in 1..Len(rs) : rs[i].nit = restaurantInput.nit IN
    IF restaurantExists
    THEN Out(rs, Throw("ReferenceError", "Restaurant already exist"), 1)
    ELSE LET c == RestaurantModelCreate(rs, restaurantInput, t)
         IN Out(c.store, IF Returned(c.r) THEN Return(c.doc[1]) ELSE c.r, 2)

\* RestaurantService.update
restaurantService_update(rs, id, restaurantInput, t) ==
    LET u == FindOneAndUpdate(rs, id, restaurantInput, t, "nit")
    IN Out(u.store, IF Returned(u.r) THEN Return(u.after) ELSE u.r, 1)

\* RestaurantService.getAll
restaurantService_getAll(rs) == Out(rs, Return(FindActive(rs)), 1)

\* RestaurantService.getById
restaurantService_getById(rs, id) == Out(rs, FindById(rs, id), 1)

\* A faulty variant of RestaurantService.delete: the record is removed.
restaurantService_delete_removes(rs, id, t) ==
    IF ~IsObjectId(id) THEN Out(rs, Throw("CastError", "Cast to ObjectId failed"), 1)
    ELSE IF id \in 1..Len(rs)
    THEN Out(SubSeq(rs, 1, id - 1) \o SubSeq(rs, id + 1, Len(rs)), Return(TRUE), 1)
    ELSE Out(rs, Return(FALSE), 1)

\* RestaurantService.delete
restaurantService_delete(rs, id, t) ==
    LET u == FindOneAndUpdate(rs, id, [deletedAt |-> Some(t)], t, "nit")
    IN Out(u.store, IF Returned(u.r) THEN Return(u.before # NULL) ELSE u.r, 1)

\* populate(field, select): the referenced document's selected fields, or
\* null when the reference dangles.
Populate(doc, field, coll, select) ==
    [doc EXCEPT ![field] =
        IF @ \in 1..Len(coll)
        THEN Some([g \in select \cup {"_id"} |-> coll[@][g]])
        ELSE NULL]

PopulateBoth(doc, us, rs) ==
    Populate(Populate(doc, "restaurantId", rs, {"name", "address"}), "userId", us, {"name"})

\* A faulty variant of ReservationService.create: the restaurant is looked up
\* before the user.
reservationService_create_restaurantFirst(us, rs, vs, reservationInput, t) ==
    LET restaurantExists == FindById(rs, reservationInput.restaurantId) IN
    IF ~Returned(restaurantExists) THEN Out(vs, restaurantExists, 1)
    ELSE IF restaurantExists.v[1] = NULL
    THEN Out(vs, Throw("ReferenceError", "Restaurant not found"), 1)
    ELSE LET userExists == FindById(us, reservationInput.userId) IN
         IF ~Returned(userExists) THEN Out(vs, userExists, 2)
         ELSE IF userExists.v[1] = NULL
         THEN Out(vs, Throw("ReferenceError", "User not found"), 2)
         ELSE LET c == ReservationModelCreate(vs, reservationInput, t)
              IN Out(c.store, IF Returned(c.r) THEN Return(c.doc[1]) ELSE c.r, 3)

\* ReservationService.create
reservationService_create(us, rs, vs, reservationInput, t) ==
    LET userExists == FindById(us, reservationInput.userId) IN
    IF ~Returned(userExists) THEN Out(vs, userExists, 1)
    ELSE IF userExists.v[1] = NULL
    THEN Out(vs, Throw("ReferenceError", "User not found"), 1)
    ELSE LET restaurantExists == FindById(rs, reservationInput.restaurantId) IN
         IF ~Returned(restaurantExists) THEN Out(vs, restaurantExists, 2)
         ELSE IF restaurantExists.v[1] = NULL
         THEN Out(vs, Throw("ReferenceError", "Restaurant not found"), 2)
         ELSE LET c == ReservationModelCreate(vs, reservationInput, t)
              IN Out(c.store, IF Returned(c.r) THEN Return(c.doc[1]) ELSE c.r, 3)

\* ReservationService.update
reservationService_update(vs, id, reservationInput, t) ==
    LET u == FindOneAndUpdate(vs, id, reservationInput, t, "_id")
    IN Out(u.store, IF Returned(u.r) THEN Return(u.after) ELSE u.r, 1)

\* ReservationService.getAll
reservationService_getAll(us, rs, vs) ==
    Out(vs, Return([i \in 1..Len(FindActive(vs)) |->
                        PopulateBoth(FindActive(vs)[i], us, rs)]), 3)

\* A faulty variant of ReservationService.getById: soft-deleted reservations
\* are filtered out.
reservationService_getById_activeOnly(us, rs, vs, id) ==
    LET f == FindById(vs, id)
    IN IF ~Returned(f) THEN Out(vs, f, 1)
       ELSE IF f.v[1] = NULL \/ ~Active(f.v[1][1]) THEN Out(vs, Return(NULL), 1)
       ELSE Out(vs, Return(Some(PopulateBoth(f.v[1][1], us, rs))), 3)

\* ReservationService.getById
reservationService_getById(us, rs, vs, id) ==
    LET f == FindById(vs, id)
    IN IF ~Returned(f) THEN Out(vs, f, 1)
       ELSE IF f.v[1] = NULL THEN Out(vs, Return(NULL), 1)
       ELSE Out(vs, Return(Some(PopulateBoth(f.v[1][1], us, rs))), 3)

\* ReservationService.delete
reservationService_delete(vs, id, t) ==
    LET u == FindOneAndUpdate(vs, id, [deletedAt |-> Some(t)], t, "_id")
    IN Out(u.store, IF Returned(u.r) THEN Return(u.before # NULL) ELSE u.r, 1)

ByUser(vs, userId) == SelectSeq(vs, LAMBDA d : d.userId = userId)

ByRestaurant(vs, restaurantId) == SelectSeq(vs, LAMBDA d : d.restaurantId = restaurantId)

\* ReservationService.getByUserId
reservationService_getByUserId(us, vs, userId) ==
    IF ~IsObjectId(userId) THEN Out(vs, Throw("CastError", "Cast to ObjectId failed"), 1)
    ELSE Out(vs, Return([i \in 1..Len(ByUser(vs, userId)) |->
                            Populate(ByUser(vs, userId)[i], "userId", us, {"name"})]), 2)

\* ReservationService.getByRestaurantId
reservationService_getByRestaurantId(rs, vs, restaurantId) ==
    IF ~IsObjectId(restaurantId)
    THEN Out(vs, Throw("CastError", "Cast to ObjectId failed"), 1)
    ELSE Out(vs, Return([i \in 1..Len(ByRestaurant(vs, restaurantId)) |->
                            Populate(ByRestaurant(vs, restaurantId)[i], "restaurantId",
                                     rs, {"name", "address"})]), 2)

----------------------------------------------------------------------------
(* Validators (express-validator chains). A check is decided on the value  *)
(* the field carries; the sets below stand for the values a pattern admits.*)

LetterNames == {"Ana", "Luis", "Carlos", "Camila"}

EmailAddresses == {"admin@example.com", "user@example.com", "ana@example.com"}

StrongPasswords == {"Carlos123", "Camila123", "Secret12"}

IsoDates == {"2025-01-01"}

Hours == {"08:30PM"}

Check(test, msg) == [test |-> test, msg |-> msg]

Rule(loc, field, optional, checks) ==
    [loc |-> loc, field |-> field, optional |-> optional, checks |-> checks]

\* One validator of a chain on a present value.
Passes(test, v) ==
    CASE test = "isMongoId" -> IsObjectId(v)
      [] test = "isLength1to30" -> Len(v) \in 1..30
      [] test = "isLength1to12" -> Len(v) \in 1..12
      [] test = "isLength1to20" -> Len(v) \in 1..20
      [] test = "isLength1to15" -> Len(v) \in 1..15
      [] test = "isLength2to50" -> Len(v) \in 2..50
      [] test = "isLengthMin6" -> Len(v) >= 6
      [] test = "lettersAndSpaces" -> v \in LetterNames
      [] test = "isEmail" -> v \in EmailAddresses
      [] test = "strongPassword" -> v \in StrongPasswords
      [] test = "isISO8601" -> v \in IsoDates
      [] test = "hourPattern" -> v \in Hours
      [] test = "isIntGt1" -> v > 1

ValidationArrays ==
    [userValidations_create |-> <<
        Rule("body", "name", FALSE, <<
            Check("isLength2to50", "Name must be between 2 and 50 characters"),
            Check("lettersAndSpaces", "Name can only contain letters and spaces")>>),
        Rule("body", "email", FALSE, <<
            Check("isEmail", "Please provide a valid email address")>>),
        Rule("body", "password", FALSE, <<
            Check("isLengthMin6", "Password must be at least 6 characters long"),
            Check("strongPassword", "Password must contain at least one lowercase letter, one uppercase letter, and one number")>>)>>,
     userValidations_update |-> <<
        Rule("body", "name", TRUE, <<
            Check("isLength2to50", "Name must be between 2 and 50 characters"),
            Check("lettersAndSpaces", "Name can only contain letters and spaces")>>),
        Rule("body", "email", TRUE, <<
            Check("isEmail", "Please provide a valid email address")>>)>>,
     userValidations_id |-> <<
        Rule("params", "id", FALSE, <<Check("isMongoId", "Invalid user ID format")>>)>>,
     restaurantValidations_create |-> <<
        Rule("body", "name", FALSE, <<
            Check("isLength1to30", "Name must be between 1 and 30 characters")>>),
        Rule("body", "address", FALSE, <<
            Check("isLength1to30", "Address must be between 1 and 30 characters")>>),
        Rule("body", "city", FALSE, <<
            Check("isLength1to30", "City must be between 1 and 30 characters")>>),
        Rule("body", "nit", FALSE, <<
            Check("isLength1to30", "Genre must be between 1 and 30 characters")>>),
        Rule("body", "phone", FALSE, <<
            Check("isLength1to12", "Phone must be between 1 and 12 characters")>>)>>,
     restaurantValidations_update |-> <<
        Rule("body", "name", TRUE, <<
            Check("isLength1to30", "Name must be between 1 and 30 characters")>>),
        Rule("body", "address", TRUE, <<
            Check("isLength1to30", "Address must be between 1 and 30 characters")>>),
        Rule("body", "city", TRUE, <<
            Check("isLength1to30", "City must be between 1 and 30 characters")>>),
        Rule("body", "phone", TRUE, <<
            Check("isLength1to12", "Phone must be between 1 and 12 characters")>>)>>,
     restaurantValidations_id |-> <<
        Rule("params", "id", FALSE, <<Check("isMongoId", "Invalid game ID format")>>)>>,
     reservationValidations_create |-> <<
        Rule("body", "date", FALSE, <<Check("isISO8601", "Date must be a valid date")>>),
        Rule("body", "hour", FALSE, <<
            Check("isLength1to20", "Hour must be between 1 and 20 characters"),
            Check("hourPattern", "Please provide a valid hour")>>),
        Rule("body", "userQuantity", FALSE, <<
            Check("isIntGt1", "User quantity must be greater than 1")>>),
        Rule("body", "status", FALSE, <<
            Check("isLength1to15", "Status must be between 1 and 15 characters")>>)>>,
     reservationValidations_update |-> <<
        Rule("body", "date", TRUE, <<Check("isISO8601", "Date must be a valid date")>>),
        Rule("body", "hour", TRUE, <<
            Check("isLength1to20", "Hour must be between 1 and 20 characters"),
            Check("hourPattern", "Please provide a valid hour")>>),
        Rule("body", "userQuantity", TRUE, <<
            Check("isIntGt1", "User quantity must be greater than 1")>>),
        Rule("body", "status", TRUE, <<
            Check("isLength1to15", "Status must be between 1 and 15 characters")>>)>>,
     reservationValidations_id |-> <<
        Rule("params", "id", FALSE, <<Check("isMongoId", "Invalid game ID format")>>)>>,
     reservationValidations_userId |-> <<
        Rule("params", "userId", FALSE, <<Check("isMongoId", "Invalid user ID format")>>)>>,
     reservationValidations_restaurantId |-> <<
        Rule("params", "restaurantId", FALSE, <<
            Check("isMongoId", "Invalid restaurant ID format")>>)>>]

\* The errors one chain reports on a request: none for an optional field
\* that is absent, one per failing validator otherwise.
RuleErrors(rule, request) ==
    LET obj == IF rule.loc = "body" THEN request.body ELSE request.params
        present == Has(obj, rule.field)
        failing == SelectSeq(rule.checks,
                             LAMBDA c : ~present \/ ~Passes(c.test, obj[rule.field]))
    IN IF ~present /\ rule.optional THEN <<>>
       ELSE [i \in 1..Len(failing) |->
                [type |-> "field", path |-> rule.field, msg |-> failing[i].msg,
                 value |-> IF present THEN Some(obj[rule.field]) ELSE NULL]]

RECURSIVE ArrayErrors(_, _)
ArrayErrors(rules, request) ==
    IF rules = <<>> THEN <<>>
    ELSE RuleErrors(Head(rules), request) \o ArrayErrors(Tail(rules), request)

\* The validation chains of one array run in order; each records its errors
\* on the request and calls next().
validationChains ==
    /\ At("validationChains")
    /\ req' = [req EXCEPT !.errors = @ \o ArrayErrors(ValidationArrays[chain[pc].arg], req)]
    /\ CallNext("validationChains")
    /\ UNCHANGED <<storeVars, now, jwtSecretEnv, issued, chain, reqUser, verified,
                   storeOps, call, served, inflight, startup, resultCalls>>

\* A faulty variant: every error is reported under its path.
FormatError_anyType(error) ==
    [field |-> IF Has(error, "path") THEN error.path ELSE "unknown",
     message |-> error.msg,
     value |-> IF Has(error, "value") THEN error.value ELSE NULL]

\* {field, message, value} of one validation error: path and value are those
\* of an error of type 'field'; any other error is 'unknown' without value.
FormatError(error) ==
    IF Has(error, "type") /\ error.type = "field"
    THEN [field |-> error.path, message |-> error.msg, value |-> error.value]
    ELSE [field |-> "unknown", message |-> error.msg, value |-> NULL]

\* errors.array().map(...): each validation error, in order.
FormatErrors(errors) == [i \in 1..Len(errors) |-> FormatError(errors[i])]

\* validationResult(req): isEmpty() decides, array() is read only to answer.
handleValidationErrors ==
    /\ At("handleValidationErrors")
    /\ IF req.errors = <<>>
       THEN /\ CallNext("handleValidationErrors")
            /\ resultCalls' = Append(resultCalls, "isEmpty")
       ELSE /\ Reject(400, [kind |-> "validation", message |-> "Validation errors",
                            data |-> FormatErrors(req.errors)])
            /\ resultCalls' = resultCalls \o <<"isEmpty", "array">>
    /\ UNCHANGED <<storeVars, now, jwtSecretEnv, issued, chain, req, reqUser,
                   verified, storeOps, call, served, inflight, startup>>

----------------------------------------------------------------------------
(* Routes: the chain of middlewares each one mounts *)

Auth == Mw("authMiddleware", "")

Role(r) == Mw("checkRole", r)

\* A faulty variant: a validation array that does not end with
\* handleValidationErrors.
Validate_noHandle(array) == <<Mw("validationChains", array)>>

\* A validation array: its chains, then handleValidationErrors.
Validate(array) == <<Mw("validationChains", array), Mw("handleValidationErrors", "")>>

Handler(h) == Mw("controller", h)

UserRoutes ==
    [GET_users |-> <<Auth, Role(UserRole.ADMIN), Handler("userController.getAll")>>,
     GET_users_id |-> <<Auth, Role(UserRole.ADMIN)>> \o Validate("userValidations_id")
                      \o <<Handler("userController.getOne")>>,
     PUT_users_id |-> <<Auth, Role(UserRole.ADMIN)>> \o Validate("userValidations_id")
                      \o Validate("userValidations_update")
                      \o <<Handler("userController.update")>>,
     POST_users |-> <<Auth, Role(UserRole.ADMIN)>> \o Validate("userValidations_create")
                    \o <<Handler("userController.create")>>,
     DELETE_users_id |-> <<Auth, Role(UserRole.ADMIN)>> \o Validate("userValidations_id")
                         \o <<Handler("userController.delete")>>]

RestaurantRoutes ==
    [GET_restaurants |-> <<Auth, Handler("restaurantController.getAll")>>,
     GET_restaurants_id |-> <<Auth>> \o Validate("restaurantValidations_id")
                            \o <<Handler("restaurantController.getOne")>>,
     POST_restaurants |-> <<Auth, Role(UserRole.ADMIN)>>
                          \o Validate("restaurantValidations_create")
                          \o <<Handler("restaurantController.create")>>,
     PUT_restaurants_id |-> <<Auth, Role(UserRole.ADMIN)>>
                            \o Validate("restaurantValidations_id")
                            \o Validate("restaurantValidations_update")
                            \o <<Handler("restaurantController.update")>>,
     DELETE_restaurants_id |-> <<Auth, Role(UserRole.ADMIN)>>
                               \o Validate("restaurantValidations_id")
                               \o <<Handler("restaurantController.delete")>>]

ReservationRoutes ==
    [GET_reservations_user_userId |-> <<Auth, Role(UserRole.USER)>>
                            \o Validate("reservationValidations_userId")
                            \o <<Handler("reservationController.getByUserId")>>,
     GET_reservations_restaurant_restaurantId |-> <<Auth, Role(UserRole.ADMIN)>>
                            \o Validate("reservationValidations_restaurantId")
                            \o <<Handler("reservationController.getByRestaurantId")>>,
     GET_reservations |-> <<Auth, Role(UserRole.ADMIN),
                            Handler("reservationController.getAll")>>,
     GET_reservations_id |-> <<Auth>> \o Validate("reservationValidations_id")
                             \o <<Handler("reservationController.getOne")>>,
     POST_reservations |-> <<Auth, Role(UserRole.USER)>>
                           \o Validate("reservationValidations_create")
                           \o <<Handler("reservationController.create")>>,
     PUT_reservations_id |-> <<Auth, Role(UserRole.USER)>>
                             \o Validate("reservationValidations_id")
                             \o Validate("reservationValidations_update")
                             \o <<Handler("reservationController.update")>>,
     DELETE_reservations_id |-> <<Auth, Role(UserRole.USER)>>
                                \o Validate("reservationValidations_id")
                                \o <<Handler("reservationController.delete")>>]

AuthRoutes == [POST_auth_login |-> <<Handler("authController.login")>>]

ProtectedRoutes == DOMAIN UserRoutes \cup DOMAIN RestaurantRoutes \cup DOMAIN ReservationRoutes

AllRoutes == ProtectedRoutes \cup DOMAIN AuthRoutes

\* app.use(mount, router): the chain the application runs for a route.
RouteChain(route) ==
    IF route \in DOMAIN UserRoutes THEN UserRoutes[route]
    ELSE IF route \in DOMAIN RestaurantRoutes THEN RestaurantRoutes[route]
    ELSE IF route \in DOMAIN ReservationRoutes THEN ReservationRoutes[route]
    ELSE AuthRoutes[route]

----------------------------------------------------------------------------
(* Controllers *)

In(handler) == At("controller") /\ chain[pc].arg = handler

\* res.status(500).json(error)
ErrorBody(r) == [kind |-> "error", message |-> r.message, data |-> <<r.name>>]

NotFound(entity, id) == Message(entity \o " with id " \o ToString(id) \o " not found")

\* A service call: the operation, the argument as passed (input) and as the
\* caller finds it afterwards (arg), the result, the plaintexts given to
\* bcrypt.hash and whether bcrypt.compare was called.
NoCall ==
    [op |-> "", input |-> <<>>, arg |-> <<>>, ret |-> Return(NULL), hashed |-> <<>>,
     compared |-> FALSE]

Called(op, arg, ret) ==
    [op |-> op, input |-> arg, arg |-> arg, ret |-> ret, hashed |-> <<>>,
     compared |-> FALSE]

\* The handler's service call has been made and these responses sent.
Done(record, ops, responses) ==
    /\ call' = record
    /\ storeOps' = storeOps + ops
    /\ res' = res \o responses
    /\ pc' = 0
    /\ UNCHANGED <<now, jwtSecretEnv, chain, req, reqUser, passed, verified, served, inflight,
                   startup, resultCalls>>

\* A faulty variant: the null check is left out, null is sent as the body.
FoundOr404_noNullCheck(entity, id, ret) ==
    IF ~Returned(ret) THEN <<Response(500, ErrorBody(ret))>>
    ELSE <<Response(200, Json(ret.v[1]))>>

\* getOne / update: 404 on null, 200 with the entity otherwise, 500 on a throw.
FoundOr404(entity, id, ret) ==
    IF ~Returned(ret) THEN <<Response(500, ErrorBody(ret))>>
    ELSE IF ret.v[1] = NULL THEN <<Response(404, NotFound(entity, id))>>
    ELSE <<Response(200, Json(ret.v[1][1]))>>

\* delete: 404 on false, 204 with no body otherwise, 500 on a throw.
DeletedOr404(entity, id, ret) ==
    IF ~Returned(ret) THEN <<Response(500, ErrorBody(ret))>>
    ELSE IF ~ret.v[1] THEN <<Response(404, NotFound(entity, id))>>
    ELSE <<Response(204, Empty)>>

ListOr500(ret) ==
    IF ~Returned(ret) THEN <<Response(500, ErrorBody(ret))>>
    ELSE <<Response(200, Json(ret.v[1]))>>

\* A faulty variant: no instanceof ReferenceError branch, every failure is
\* answered 500.
CreatedOr400_no400(message, ret) ==
    IF Returned(ret) THEN <<Response(201, Json(ret.v[1]))>>
    ELSE <<Response(500, ErrorBody(ret))>>

\* RestaurantController.create / ReservationController.create: the 400 branch
\* does not return, so res.status(500).json(error) follows it.
CreatedOr400(message, ret) ==
    IF Returned(ret) THEN <<Response(201, Json(ret.v[1]))>>
    ELSE IF ret.name = "ReferenceError"
    THEN <<Response(400, Message(message)), Response(500, ErrorBody(ret))>>
    ELSE <<Response(500, ErrorBody(ret))>>

restaurantController_create ==
    /\ In("restaurantController.create")
    /\ LET r == restaurantService_create(restaurants, req.body, now) IN
       /\ Len(r.store) <= MaxRestaurants
       /\ restaurants' = r.store
       /\ Done(Called("restaurantService.create", req.body, r.ret), r.ops,
               CreatedOr400("Restaurant already exist", r.ret))
    /\ UNCHANGED <<users, reservations, issued>>

restaurantController_getAll ==
    /\ In("restaurantController.getAll")
    /\ LET r == restaurantService_getAll(restaurants) IN
       Done(Called("restaurantService.getAll", <<>>, r.ret), r.ops, ListOr500(r.ret))
    /\ UNCHANGED <<storeVars, issued>>

restaurantController_getOne ==
    /\ In("restaurantController.getOne")
    /\ LET id == req.params.id
           r == restaurantService_getById(restaurants, id) IN
       Done(Called("restaurantService.getById", id, r.ret), r.ops,
            FoundOr404("Restaurant", id, r.ret))
    /\ UNCHANGED <<storeVars, issued>>

restaurantController_update ==
    /\ In("restaurantController.update")
    /\ LET id == req.params.id
           r == restaurantService_update(restaurants, id, req.body, now) IN
       /\ restaurants' = r.store
       /\ Done(Called("restaurantService.update", id, r.ret), r.ops,
               FoundOr404("Restaurant", id, r.ret))
    /\ UNCHANGED <<users, reservations, issued>>

restaurantController_delete ==
    /\ In("restaurantController.delete")
    /\ LET id == req.params.id
           r == restaurantService_delete(restaurants, id, now) IN
       /\ restaurants' = r.store
       /\ Done(Called("restaurantService.delete", id, r.ret), r.ops,
               DeletedOr404("Restaurant", id, r.ret))
    /\ UNCHANGED <<users, reservations, issued>>

reservationController_create ==
    /\ In("reservationController.create")
    /\ LET r == reservationService_create(users, restaurants, reservations, req.body, now) IN
       /\ Len(r.store) <= MaxReservations
       /\ reservations' = r.store
       /\ Done(Called("reservationService.create", req.body, r.ret), r.ops,
               CreatedOr400("Restaurant or User not found", r.ret))
    /\ UNCHANGED <<users, restaurants, issued>>

reservationController_getAll ==
    /\ In("reservationController.getAll")
    /\ LET r == reservationService_getAll(users, restaurants, reservations) IN
       Done(Called("reservationService.getAll", <<>>, r.ret), r.ops, ListOr500(r.ret))
    /\ UNCHANGED <<storeVars, issued>>

reservationController_getOne ==
    /\ In("reservationController.getOne")
    /\ LET id == req.params.id
           r == reservationService_getById(users, restaurants, reservations, id) IN
       Done(Called("reservationService.getById", id, r.ret), r.ops,
            FoundOr404("Reservation", id, r.ret))
    /\ UNCHANGED <<storeVars, issued>>

reservationController_update ==
    /\ In("reservationController.update")
    /\ LET id == req.params.id
           r == reservationService_update(reservations, id, req.body, now) IN
       /\ reservations' = r.store
       /\ Done(Called("reservationService.update", id, r.ret), r.ops,
               FoundOr404("Reservation", id, r.ret))
    /\ UNCHANGED <<users, restaurants, issued>>

reservationController_delete ==
    /\ In("reservationController.delete")
    /\ LET id == req.params.id
           r == reservationService_delete(reservations, id, now) IN
       /\ reservations' = r.store
       /\ Done(Called("reservationService.delete", id, r.ret), r.ops,
               DeletedOr404("Reservation", id, r.ret))
    /\ UNCHANGED <<users, restaurants, issued>>

reservationController_getByUserId ==
    /\ In("reservationController.getByUserId")
    /\ LET userId == req.params.userId
           r == reservationService_getByUserId(users, reservations, userId) IN
       Done(Called("reservationService.getByUserId", userId, r.ret), r.ops, ListOr500(r.ret))
    /\ UNCHANGED <<storeVars, issued>>

reservationController_getByRestaurantId ==
    /\ In("reservationController.getByRestaurantId")
    /\ LET restaurantId == req.params.restaurantId
           r == reservationService_getByRestaurantId(restaurants, reservations, restaurantId) IN
       Done(Called("reservationService.getByRestaurantId", restaurantId, r.ret), r.ops,
            ListOr500(r.ret))
    /\ UNCHANGED <<storeVars, issued>>

\* UserController.create: a ReferenceError is answered 404 with its message.
UserCreatedOr404(ret) ==
    IF Returned(ret) THEN <<Response(201, Json(ret.v[1]))>>
    ELSE IF ret.name = "ReferenceError" THEN <<Response(404, Message(ret.message))>>
    ELSE <<Response(500, ErrorBody(ret))>>

userController_create ==
    /\ In("userController.create")
    /\ LET r == userService_create(users, req.body, now) IN
       /\ Len(r.store) <= MaxUsers
       /\ users' = r.store
       /\ Done([op |-> "userService.create", input |-> req.body, arg |-> r.arg,
                ret |-> r.ret, hashed |-> r.hashed, compared |-> FALSE],
               r.ops, UserCreatedOr404(r.ret))
    /\ UNCHANGED <<restaurants, reservations, issued>>

userController_getAll ==
    /\ In("userController.getAll")
    /\ LET r == userService_getAll(users) IN
       Done(Called("userService.getAll", <<>>, r.ret), r.ops, ListOr500(r.ret))
    /\ UNCHANGED <<storeVars, issued>>

userController_getOne ==
    /\ In("userController.getOne")
    /\ LET id == req.params.id
           r == userService_getById(users, id) IN
       Done(Called("userService.getById", id, r.ret), r.ops, FoundOr404("User", id, r.ret))
    /\ UNCHANGED <<storeVars, issued>>

userController_update ==
    /\ In("userController.update")
    /\ LET id == req.params.id
           r == userService_update(users, id, req.body, now) IN
       /\ users' = r.store
       /\ Done(Called("userService.update", id, r.ret), r.ops, FoundOr404("User", id, r.ret))
    /\ UNCHANGED <<restaurants, reservations, issued>>

userController_delete ==
    /\ In("userController.delete")
    /\ LET id == req.params.id
           r == userService_delete(users, id, now) IN
       /\ users' = r.store
       /\ Done(Called("userService.delete", id, r.ret), r.ops, DeletedOr404("User", id, r.ret))
    /\ UNCHANGED <<restaurants, reservations, issued>>

\* A faulty variant: every failure answered 401 with the error's message.
LoginResponse_echoError(ret) ==
    IF Returned(ret) THEN <<Response(200, Json([token |-> ret.v[1]]))>>
    ELSE <<Response(401, Message(ret.message))>>

\* AuthController.login: the response for the result of authService.login.
LoginResponse(ret) ==
    IF Returned(ret) THEN <<Response(200, Json([token |-> ret.v[1]]))>>
    ELSE IF ret.name = "ReferenceError" THEN <<Response(401, Message(ret.message))>>
    ELSE <<Response(500, Message("Internal server error"))>>

authController_login ==
    /\ In("authController.login")
    /\ LET r == authService_login(users, req.body, jwtSecretEnv, now) IN
       /\ issued' = IF r.token = NULL THEN issued ELSE issued \cup {r.token[1]}
       /\ Cardinality(issued') <= MaxTokens
       /\ Done([op |-> "authService.login", input |-> req.body, arg |-> req.body,
                ret |-> r.ret, hashed |-> <<>>, compared |-> r.compared],
               r.ops, LoginResponse(r.ret))
    /\ UNCHANGED storeVars

----------------------------------------------------------------------------
(* Startup: connectionDB seeds the default accounts, then the server listens *)

SeedAccount(us, name, email, plain, roles, t) ==
    IF \E i \in 1..Len(us) : us[i].email = email THEN us
    ELSE UserModelCreate(us, [name |-> name, email |-> email,
                              password |-> BcryptHash(plain), roles |-> roles], t).store

\* The process once index.ts has run: connected, seeded, listening.
Started ==
    [pc |-> "listening", variant |-> "adminAndUser", account |-> 0, connected |-> TRUE,
     seeded |-> TRUE, listening |-> TRUE, runs |-> 1]

\* src/config/connectionDB.ts: the admin account, then the user account.
Seed(us, t) ==
    SeedAccount(SeedAccount(us, "Carlos", "admin@example.com", "Carlos123",
                            <<UserRole.ADMIN>>, t),
                "Camila", "user@example.com", "Camila123", <<UserRole.USER>>, t)

\* Values of process.env.JWT_SECRET: unset, empty, set.
JwtSecrets == {NULL, Some(""), Some("s3cr3t")}

----------------------------------------------------------------------------
(* Requests a client can send *)

\* Tokens a client can make up without the server: signed with a key that is
\* not the server's, or with the default secret of the source code.
CraftedTokens ==
    {Jwt(1, RolesArray(<<UserRole.ADMIN>>), 0, MaxTime + 1, "guessed"),
     Jwt(9, RolesArray(<<UserRole.ADMIN, UserRole.USER>>), 0, MaxTime + 1, DefaultSecret),
     Jwt(9, RolesArray(<<>>), 0, MaxTime + 1, DefaultSecret)}

Bearer(j) == Some(<<Word("Bearer"), SP, Tok(j)>>)

AppHeaders ==
    {NULL} \cup {Bearer(j) : j \in issued \cup CraftedTokens}
           \cup {Some(<<Word("Basic"), SP, Tok(j)>>) : j \in issued}

NoBody == <<>>

UserCreateBodies ==
    {[name |-> "Ana", email |-> "ana@example.com", password |-> "Secret12"],
     [name |-> "Ana", email |-> "admin@example.com", password |-> "Secret12"],
     [name |-> "Ana", email |-> "ana@example.com", password |-> "abc"]}

UserUpdateBodies == {[name |-> "Luis"], [email |-> "user@example.com"], [name |-> "L"]}

RestaurantCreateBodies ==
    {[name |-> "Sazon", address |-> "Cra 1", city |-> "Cali", nit |-> "900-1",
      phone |-> "5551"],
     [name |-> "Fogon", address |-> "Cra 2", city |-> "Cali", nit |-> "900-1",
      phone |-> "5552"],
     [name |-> "", address |-> "Cra 1", city |-> "Cali", nit |-> "900-2",
      phone |-> "5551"]}

RestaurantUpdateBodies == {[name |-> "Brasa"], [phone |-> ""]}

ReservationCreateBodies ==
    {[date |-> "2025-01-01", hour |-> "08:30PM", restaurantId |-> r, userId |-> u,
      userQuantity |-> q, status |-> "pending"] :
        r \in {1}, u \in {2, MaxUsers + 1}, q \in {2}}
    \cup {[date |-> "2025-01-01", hour |-> "08:30PM", restaurantId |-> 1, userId |-> 2,
           userQuantity |-> 1, status |-> "pending"]}

ReservationUpdateBodies == {[status |-> "confirmed"], [userQuantity |-> 1]}

LoginBodies ==
    {[email |-> "admin@example.com", password |-> "Carlos123"],
     [email |-> "user@example.com", password |-> "Camila123"],
     [email |-> "admin@example.com", password |-> "Camila123"],
     [email |-> "nobody@example.com", password |-> "Carlos123"],
     [email |-> "admin@example.com"]}

Bodies(route) ==
    CASE route = "POST_users" -> UserCreateBodies
      [] route = "PUT_users_id" -> UserUpdateBodies
      [] route = "POST_restaurants" -> RestaurantCreateBodies
      [] route = "PUT_restaurants_id" -> RestaurantUpdateBodies
      [] route = "POST_reservations" -> ReservationCreateBodies
      [] route = "PUT_reservations_id" -> ReservationUpdateBodies
      [] route = "POST_auth_login" -> LoginBodies
      [] OTHER -> {NoBody}

\* The path parameters of a route: a string that is no ObjectId (0), the id
\* of each stored document, and one id that is not stored.
Params(route) ==
    CASE route \in {"GET_users_id", "PUT_users_id", "DELETE_users_id"} ->
            {[id |-> n] : n \in 0..(Len(users) + 1)}
      [] route \in {"GET_restaurants_id", "PUT_restaurants_id", "DELETE_restaurants_id"} ->
            {[id |-> n] : n \in 0..(Len(restaurants) + 1)}
      [] route \in {"GET_reservations_id", "PUT_reservations_id","DELETE_reservations_id"} ->
            {[id |-> n] : n \in 0..(Len(reservations) + 1)}
      [] route = "GET_reservations_user_userId" ->
            {[userId |-> n] : n \in 0..(Len(users) + 1)}
      [] route = "GET_reservations_restaurant_restaurantId" ->
            {[restaurantId |-> n] : n \in 0..(Len(restaurants) + 1)}
      [] OTHER -> {<<>>}

NoRequest ==
    [route |-> "", authorization |-> NULL, params |-> <<>>, body |-> NoBody,
     errors |-> <<>>]

\* No request is being served and the last one's objects are gone.
Idle == pc = 0 /\ chain = <<>>

\* Express dispatches a request to its route's chain.
Receive ==
    /\ Idle
    /\ served < MaxRequests
    /\ \E route \in AllRoutes, authorization \in AppHeaders :
       \E params \in Params(route), body \in Bodies(route) :
          /\ req' = [route |-> route, authorization |-> authorization,
                     params |-> params, body |-> body, errors |-> <<>>]
          /\ chain' = RouteChain(route)
    /\ pc' = 1
    /\ reqUser' = NULL
    /\ res' = <<>>
    /\ passed' = <<>>
    /\ verified' = <<>>
    /\ storeOps' = 0
    /\ call' = NoCall
    /\ resultCalls' = <<>>
    /\ served' = served + 1
    /\ UNCHANGED <<storeVars, now, jwtSecretEnv, issued, inflight, startup>>

\* The response has been written (or the chain has run out): the request and
\* response objects of this request are dropped.
Close ==
    /\ ~Running
    /\ chain # <<>>
    /\ chain' = <<>>
    /\ pc' = 0
    /\ req' = NoRequest
    /\ reqUser' = NULL
    /\ res' = <<>>
    /\ passed' = <<>>
    /\ verified' = <<>>
    /\ storeOps' = 0
    /\ call' = NoCall
    /\ resultCalls' = <<>>
    /\ UNCHANGED <<storeVars, now, jwtSecretEnv, issued, served, inflight, startup>>

\* Time passes between requests.
Tick ==
    /\ Idle
    /\ now < MaxTime
    /\ now' = now + 1
    /\ UNCHANGED <<storeVars, jwtSecretEnv, issued, chain, pc, req, reqUser, res,
                   passed, verified, storeOps, call, served, inflight, startup, resultCalls>>

Init ==
    /\ users = Seed(<<>>, 0)
    /\ restaurants = <<>>
    /\ reservations = <<>>
    /\ now = 0
    /\ jwtSecretEnv \in JwtSecrets
    /\ issued = {}
    /\ chain = <<>>
    /\ pc = 0
    /\ req = NoRequest
    /\ reqUser = NULL
    /\ res = <<>>
    /\ passed = <<>>
    /\ verified = <<>>
    /\ storeOps = 0
    /\ call = NoCall
    /\ served = 0
    /\ inflight = <<>>
    /\ startup = Started
    /\ resultCalls = <<>>

Next ==
    \/ Receive
    \/ Close
    \/ Tick
    \/ authMiddleware
    \/ checkRole
    \/ validationChains
    \/ handleValidationErrors
    \/ userController_create
    \/ userController_getAll
    \/ userController_getOne
    \/ userController_update
    \/ userController_delete
    \/ restaurantController_create
    \/ restaurantController_getAll
    \/ restaurantController_getOne
    \/ restaurantController_update
    \/ restaurantController_delete
    \/ reservationController_create
    \/ reservationController_getAll
    \/ reservationController_getOne
    \/ reservationController_update
    \/ reservationController_delete
    \/ reservationController_getByUserId
    \/ reservationController_getByRestaurantId
    \/ authController_login

Spec == Init /\ [][Next]_vars

----------------------------------------------------------------------------
(* One middleware on one request, as the middleware tests drive it: a      *)
(* request object with a header or a req.user, and next.                   *)

RoleValues ==
    {RolesArray(<<>>), RolesArray(<<UserRole.USER>>), RolesArray(<<UserRole.ADMIN>>),
     RolesArray(<<UserRole.ADMIN, UserRole.USER>>), RolesArray(<<"guest">>),
     RolesString(UserRole.ADMIN), RolesString(""), RolesUndefined}

SigningKeys == {DefaultSecret, "s3cr3t", "guessed"}

UnitJwts ==
    {Jwt(1, r, 0, e, k) :
        r \in {RolesArray(<<UserRole.ADMIN>>), RolesArray(<<>>), RolesUndefined},
        e \in {1, MaxTime + 1}, k \in SigningKeys}

UnitTokens == {Tok(j) : j \in UnitJwts} \cup {Word("alice:secret")}

UnitHeaders ==
    {NULL, Some(<<>>), Some(<<Word("Bearer")>>), Some(<<Word("Bearer"), SP>>)}
    \cup {Some(<<t>>) : t \in UnitTokens}
    \cup {Some(<<Word(scheme), SP, t>>) :
            scheme \in {"Bearer", "bearer", "Basic"}, t \in UnitTokens}
    \cup {Some(<<Word("Bearer"), SP, SP, t>>) : t \in UnitTokens}
    \cup {Some(<<Word("Bearer"), SP, t, SP, Word("extra")>>) : t \in UnitTokens}

UnitUsers ==
    {NULL} \cup {Some([id |-> 1, roles |-> r, iat |-> 0, exp |-> MaxTime + 1]) :
                    r \in RoleValues}

\* Validation errors as express-validator reports them: of type 'field'
\* (with and without a value), of another type, and without a type.
UnitErrors ==
    {[type |-> "field", path |-> "email", msg |-> "Email is not valid",
      value |-> Some("invalid-email")],
     [type |-> "field", path |-> "age", msg |-> "Age must be an integer", value |-> NULL],
     [type |-> "alternative", msg |-> "Either email or mobile number is required",
      nestedErrors |-> <<>>],
     [path |-> "email", msg |-> "Email check failed", value |-> Some("bad@")]}

MaxErrors == 2

UnitErrorLists ==
    UNION {[1..n -> UnitErrors] : n \in 0..MaxErrors}

InitMw ==
    /\ users = Seed(<<>>, 0)
    /\ restaurants = <<>>
    /\ reservations = <<>>
    /\ now \in 0..MaxTime
    /\ jwtSecretEnv \in JwtSecrets
    /\ issued = {}
    /\ pc = 1
    /\ res = <<>>
    /\ passed = <<>>
    /\ verified = <<>>
    /\ storeOps = 0
    /\ call = NoCall
    /\ served = 1
    /\ inflight = <<>>
    /\ startup = Started
    /\ resultCalls = <<>>
    /\ \/ /\ chain = <<Auth>>
          /\ \E authorization \in UnitHeaders :
                req = [NoRequest EXCEPT !.authorization = authorization]
          /\ reqUser = NULL
       \/ /\ \E requiredRole \in Roles : chain = <<Role(requiredRole)>>
          /\ req = NoRequest
          /\ reqUser \in UnitUsers
       \/ /\ chain = <<Mw("handleValidationErrors", "")>>
          /\ \E errors \in UnitErrorLists : req = [NoRequest EXCEPT !.errors = errors]
          /\ reqUser = NULL

NextMw ==
    \/ authMiddleware
    \/ checkRole
    \/ handleValidationErrors

SpecMw == InitMw /\ [][NextMw]_vars

----------------------------------------------------------------------------
(* The services called one after another on the seeded store, as the       *)
(* controllers call them with bodies the validators accept.                *)

UserInputs ==
    {[name |-> "Ana", email |-> e, password |-> "Secret12"] :
        e \in {"admin@example.com", "ana@example.com"}}

UserUpdateInputs == {[name |-> "Luis"], [email |-> "user@example.com"]}

RestaurantInputs ==
    {[name |-> "Sazon", address |-> "Cra 1", city |-> "Cali", nit |-> "900-1",
      phone |-> "5551"],
     [name |-> "Fogon", address |-> "Cra 2", city |-> "Cali", nit |-> "900-1",
      phone |-> "5552"],
     [name |-> "Brasa", address |-> "Cra 3", city |-> "Cali", nit |-> "900-2",
      phone |-> "5553"]}

RestaurantUpdateInputs == {[name |-> "Brasa"], [nit |-> "900-1"]}

\* The service call is over: its record is kept, no request is involved.
Finish(record) ==
    /\ served < MaxCalls
    /\ served' = served + 1
    /\ call' = record
    /\ UNCHANGED <<now, jwtSecretEnv, issued, chain, pc, req, reqUser, res, passed,
                   verified, storeOps, inflight, startup, resultCalls>>

call_userService_create ==
    /\ Idle
    /\ \E userInput \in UserInputs :
          LET r == userService_create(users, userInput, now) IN
          /\ Len(r.store) <= MaxUsers
          /\ users' = r.store
          /\ Finish([op |-> "userService.create", input |-> userInput, arg |-> r.arg,
                     ret |-> r.ret, hashed |-> r.hashed, compared |-> FALSE])
    /\ UNCHANGED <<restaurants, reservations>>

call_userService_update ==
    /\ Idle
    /\ \E id \in 1..(Len(users) + 1), userInput \in UserUpdateInputs :
          LET r == userService_update(users, id, userInput, now) IN
          /\ users' = r.store
          /\ Finish(Called("userService.update", [id |-> id, patch |-> userInput], r.ret))
    /\ UNCHANGED <<restaurants, reservations>>

call_userService_delete ==
    /\ Idle
    /\ \E id \in 1..Len(users) :
          LET r == userService_delete(users, id, now) IN
          /\ users' = r.store
          /\ Finish(Called("userService.delete", id, r.ret))
    /\ UNCHANGED <<restaurants, reservations>>

call_restaurantService_create ==
    /\ Idle
    /\ \E restaurantInput \in RestaurantInputs :
          LET r == restaurantService_create(restaurants, restaurantInput, now) IN
          /\ Len(r.store) <= MaxRestaurants
          /\ restaurants' = r.store
          /\ Finish(Called("restaurantService.create", restaurantInput, r.ret))
    /\ UNCHANGED <<users, reservations>>

call_restaurantService_update ==
    /\ Idle
    /\ \E id \in 1..(Len(restaurants) + 1), restaurantInput \in RestaurantUpdateInputs :
          LET r == restaurantService_update(restaurants, id, restaurantInput, now) IN
          /\ restaurants' = r.store
          /\ Finish(Called("restaurantService.update",
                           [id |-> id, patch |-> restaurantInput], r.ret))
    /\ UNCHANGED <<users, reservations>>

call_restaurantService_delete ==
    /\ Idle
    /\ \E id \in 1..Len(restaurants) :
          LET r == restaurantService_delete(restaurants, id, now) IN
          /\ restaurants' = r.store
          /\ Finish(Called("restaurantService.delete", id, r.ret))
    /\ UNCHANGED <<users, reservations>>

ReservationInputs ==
    {[date |-> "2025-01-01", hour |-> "08:30PM", restaurantId |-> 1, userId |-> u,
      userQuantity |-> 2, status |-> "pending"] : u \in {2, MaxUsers + 1}}

ReservationUpdateInputs == {[status |-> "confirmed"]}

call_reservationService_create ==
    /\ Idle
    /\ \E reservationInput \in ReservationInputs :
          LET r == reservationService_create(users, restaurants, reservations,
                                             reservationInput, now) IN
          /\ Len(r.store) <= MaxReservations
          /\ reservations' = r.store
          /\ Finish(Called("reservationService.create", reservationInput, r.ret))
    /\ UNCHANGED <<users, restaurants>>

call_reservationService_update ==
    /\ Idle
    /\ \E id \in 1..(Len(reservations) + 1), reservationInput \in ReservationUpdateInputs :
          LET r == reservationService_update(reservations, id, reservationInput, now) IN
          /\ reservations' = r.store
          /\ Finish(Called("reservationService.update",
                           [id |-> id, patch |-> reservationInput], r.ret))
    /\ UNCHANGED <<users, restaurants>>

call_reservationService_delete ==
    /\ Idle
    /\ \E id \in 1..Len(reservations) :
          LET r == reservationService_delete(reservations, id, now) IN
          /\ reservations' = r.store
          /\ Finish(Called("reservationService.delete", id, r.ret))
    /\ UNCHANGED <<users, restaurants>>

\* A query is over: its record is kept, nothing is written.
Observe(record) ==
    /\ call' = record
    /\ UNCHANGED <<storeVars, now, jwtSecretEnv, issued, chain, pc, req, reqUser, res,
                   passed, verified, storeOps, served, inflight, startup, resultCalls>>

call_userService_getAll ==
    /\ Idle
    /\ Observe(Called("userService.getAll", <<>>, userService_getAll(users).ret))

call_restaurantService_getAll ==
    /\ Idle
    /\ Observe(Called("restaurantService.getAll", <<>>,
                      restaurantService_getAll(restaurants).ret))

call_reservationService_getAll ==
    /\ Idle
    /\ Observe(Called("reservationService.getAll", <<>>,
                      reservationService_getAll(users, restaurants, reservations).ret))

NextSvc ==
    \/ call_userService_create
    \/ call_userService_update
    \/ call_userService_delete
    \/ call_restaurantService_create
    \/ call_restaurantService_update
    \/ call_restaurantService_delete
    \/ call_reservationService_create
    \/ call_reservationService_update
    \/ call_reservationService_delete
    \/ call_userService_getAll
    \/ call_restaurantService_getAll
    \/ call_reservationService_getAll
    \/ Tick

\* The store as the startup leaves it; the token secret plays no part here.
InitSvc == Init /\ jwtSecretEnv = NULL

SpecSvc == InitSvc /\ [][NextSvc]_vars

----------------------------------------------------------------------------
(* Properties of the request pipeline *)

\* The handler of the request being served has made its service call.
HandlerRan == call.op # "" \/ storeOps > 0

\* The chain of the request being served stopped before its handler.
Rejected == chain # <<>> /\ pc = 0 /\ Len(passed) < Len(chain) - 1

ValidatorNames == {"validationChains", "handleValidationErrors"}

\* C1: on every route under /api/users, /api/restaurants and
\* /api/reservations the controller runs only after authMiddleware accepted
\* the request, every checkRole of the route passed and every validator
\* passed, in that order; a rejected request has exactly its 401, 403 or 400
\* response and has caused no store read or write.
C1_GatesBeforeController ==
    req.route \in ProtectedRoutes =>
        /\ HandlerRan =>
              /\ Len(passed) = Len(chain) - 1
              /\ \A i \in 1..Len(passed) : passed[i] = chain[i].mw
              /\ passed[1] = "authMiddleware"
              /\ reqUser # NULL
              /\ \A i \in 1..Len(chain) :
                    chain[i].mw = "checkRole" =>
                        /\ Includes(reqUser[1].roles, chain[i].arg)
                        /\ \A j \in 1..(i - 1) : chain[j].mw \notin ValidatorNames
              /\ req.errors = <<>>
        /\ Rejected =>
              /\ Len(res) = 1
              /\ res[1].status =
                    CASE chain[Len(passed) + 1].mw = "authMiddleware" ->
                            IF verified = <<>> THEN 401 ELSE 403
                      [] chain[Len(passed) + 1].mw = "checkRole" -> 403
                      [] chain[Len(passed) + 1].mw = "handleValidationErrors" -> 400
                      [] OTHER -> 0
              /\ storeOps = 0
              /\ call = NoCall

\* A controller has run behind authMiddleware, checkRole and validators.
C1_Witness ==
    /\ req.route = "POST_restaurants"
    /\ HandlerRan
    /\ passed = <<"authMiddleware", "checkRole", "validationChains",
                  "handleValidationErrors">>

\* The role each protected route requires: "" where a valid token is enough.
RequiredRole ==
    [GET_users |-> "admin", GET_users_id |-> "admin", PUT_users_id |-> "admin",
     POST_users |-> "admin", DELETE_users_id |-> "admin",
     GET_restaurants |-> "", GET_restaurants_id |-> "",
     POST_restaurants |-> "admin", PUT_restaurants_id |-> "admin",
     DELETE_restaurants_id |-> "admin",
     GET_reservations |-> "admin",
     GET_reservations_restaurant_restaurantId |-> "admin",
     GET_reservations_id |-> "",
     POST_reservations |-> "user", PUT_reservations_id |-> "user",
     DELETE_reservations_id |-> "user", GET_reservations_user_userId |-> "user"]

\* The roles of the token in the Authorization header of the request.
TokenRoles == req.authorization[1][3].jwt[1].roles

\* C2: a request reaches a controller only with a valid token whose roles
\* contain the role its route requires: admin for every /api/users route,
\* for POST/PUT/DELETE of restaurants, for GET /api/reservations and GET
\* /api/reservations/restaurant/:restaurantId; user for POST
\* /api/reservations, PUT/DELETE /api/reservations/:id and GET
\* /api/reservations/user/:userId; only a valid token for GET
\* /api/restaurants and GET /api/restaurants/:id. A token whose roles are
\* exactly [admin] is denied on the routes that require user.
C2_AccessMatrix ==
    req.route \in ProtectedRoutes =>
        /\ HandlerRan =>
              /\ verified = << <<req.authorization[1][3]>> >>
              /\ JwtVerify(verified[1], ResolveSecret(jwtSecretEnv), now).ok
              /\ RequiredRole[req.route] # "" =>
                    /\ IsArray(TokenRoles)
                    /\ \E i \in 1..Len(TokenRoles.v) :
                          TokenRoles.v[i] = RequiredRole[req.route]
        /\ ( /\ RequiredRole[req.route] = "user"
             /\ pc \notin {1, 2}
             /\ reqUser # NULL
             /\ reqUser[1].roles = RolesArray(<<"admin">>) ) =>
              /\ res = <<Response(403, Message("Access denied."))>>
              /\ ~HandlerRan

\* A token with roles [admin] has been denied on a route that requires user.
C2_Witness ==
    /\ req.route = "POST_reservations"
    /\ reqUser # NULL
    /\ reqUser[1].roles = RolesArray(<<"admin">>)
    /\ res = <<Response(403, Message("Access denied."))>>

----------------------------------------------------------------------------
(* Properties of the middlewares *)

\* authMiddleware / checkRole alone has handled the request.
AuthDone == chain = <<Auth>> /\ pc # 1

RoleDone == Len(chain) = 1 /\ chain[1].mw = "checkRole" /\ pc # 1

\* The space-separated parts of the Authorization header (<<>> when absent).
HeaderParts == IF req.authorization = NULL THEN <<>> ELSE Split(req.authorization[1])

\* The header is absent, empty, or has no non-empty second part.
NoSecondPart == Len(HeaderParts) < 2 \/ HeaderParts[2] = <<>>

\* The second part is a token signed with the server's secret and not expired.
SecondPartVerifies ==
    /\ Len(HeaderParts[2]) = 1
    /\ HeaderParts[2][1].jwt # NULL
    /\ HeaderParts[2][1].jwt[1].key =
          (IF jwtSecretEnv \in {NULL, Some("")} THEN "defaultSecret" ELSE jwtSecretEnv[1])
    /\ now < HeaderParts[2][1].jwt[1].exp

\* C3: authMiddleware has exactly three outcomes: 401 'Access denied. No
\* token provided.' without attempting verification when the header is
\* absent, empty or has no non-empty second part; 403 'Invalid token.' when
\* verification of the second part fails for any reason; otherwise the
\* decoded payload on req.user and next called once with no response. In the
\* first two next is not called and req.user stays unset.
C3_AuthOutcomes ==
    AuthDone =>
        IF NoSecondPart
        THEN /\ res = <<Response(401, Message("Access denied. No token provided."))>>
             /\ verified = <<>>
             /\ passed = <<>>
             /\ reqUser = NULL
        ELSE IF ~SecondPartVerifies
        THEN /\ res = <<Response(403, Message("Invalid token."))>>
             /\ verified = <<HeaderParts[2]>>
             /\ passed = <<>>
             /\ reqUser = NULL
        ELSE /\ res = <<>>
             /\ verified = <<HeaderParts[2]>>
             /\ passed = <<"authMiddleware">>
             /\ reqUser # NULL
             /\ reqUser[1].id = HeaderParts[2][1].jwt[1].id
             /\ reqUser[1].roles = HeaderParts[2][1].jwt[1].roles

\* An expired token of the server's own key has been answered 403.
C3_Witness ==
    /\ AuthDone
    /\ ~NoSecondPart
    /\ HeaderParts[2][1].jwt # NULL
    /\ HeaderParts[2][1].jwt[1].key = ResolveSecret(jwtSecretEnv)
    /\ res = <<Response(403, Message("Invalid token."))>>

\* The header has a scheme other than 'Bearer' and a non-empty second part.
OtherScheme == ~NoSecondPart /\ HeaderParts[1] # <<Word("Bearer")>>

\* C4 as stated: a header whose scheme is not exactly 'Bearer' ('bearer x',
\* 'Basic x') is rejected as a missing token, and its second part is never
\* passed to verification.
C4_SchemeRequired ==
    (AuthDone /\ OtherScheme) =>
        /\ res = <<Response(401, Message("Access denied. No token provided."))>>
        /\ verified = <<>>

\* C4 amended: the scheme is not looked at. The second space-separated part
\* of the header is the token whatever the first part is: for 'bearer x' or
\* 'Basic x' x is passed to verification once, and the request is answered
\* 403 'Invalid token.' when x does not verify and accepted when it does;
\* it is never answered 401.
C4_SchemeIgnored ==
    (AuthDone /\ OtherScheme) =>
        /\ verified = <<HeaderParts[2]>>
        /\ IF SecondPartVerifies
           THEN res = <<>> /\ passed = <<"authMiddleware">> /\ reqUser # NULL
           ELSE res = <<Response(403, Message("Invalid token."))>> /\ passed = <<>>

\* A valid token sent under the scheme 'Basic' has been accepted.
C4_Witness ==
    /\ AuthDone
    /\ OtherScheme
    /\ HeaderParts[1] = <<Word("Basic")>>
    /\ passed = <<"authMiddleware">>
    /\ reqUser # NULL

\* req.user carries a roles array that contains the role.
HasRole(user, role) ==
    /\ user # NULL
    /\ user[1].roles.t = "array"
    /\ \E i \in 1..Len(user[1].roles.v) : user[1].roles.v[i] = role

\* C5: checkRole(requiredRole) calls next if and only if req.user is present
\* with a roles array that contains requiredRole; otherwise it answers 403,
\* with 'Access denied. No roles found.' when req.user is absent or its roles
\* are missing or no array, and 'Access denied.' when the array lacks the
\* role. It leaves req.user as it found it.
C5_CheckRole ==
    [][At("checkRole") =>
          /\ reqUser' = reqUser
          /\ IF HasRole(reqUser, chain[pc].arg)
             THEN /\ passed' = Append(passed, "checkRole")
                  /\ res' = res
             ELSE /\ passed' = passed
                  /\ res' = Append(res, Response(403, Message(
                        IF reqUser = NULL \/ reqUser[1].roles.t # "array"
                        THEN "Access denied. No roles found."
                        ELSE "Access denied.")))]_vars

\* checkRole(admin) has let a req.user with roles [admin, user] through.
C5_Witness ==
    /\ RoleDone
    /\ chain[1].arg = "admin"
    /\ reqUser = Some([id |-> 1, roles |-> RolesArray(<<"admin", "user">>),
                       iat |-> 0, exp |-> MaxTime + 1])
    /\ passed = <<"checkRole">>
    /\ res = <<>>

\* checkRole(admin) has decided on a req.user whose roles are [] or [user].
AdminDeniedCase ==
    /\ RoleDone
    /\ chain[1].arg = "admin"
    /\ reqUser # NULL
    /\ reqUser[1].roles \in {RolesArray(<<>>), RolesArray(<<"user">>)}

\* C6 as stated: checkRole('admin') denies roles [] with 'Access denied. No
\* roles found.' and roles ['user'] with 'Access denied.', two distinct
\* messages.
C6_EmptyIsNoRoles ==
    AdminDeniedCase =>
        /\ passed = <<>>
        /\ res = <<Response(403, Message(IF reqUser[1].roles.v = <<>>
                                         THEN "Access denied. No roles found."
                                         ELSE "Access denied."))>>

\* C6 amended: checkRole('admin') denies roles [] and roles ['user'] alike,
\* with 403 'Access denied.': an empty array is an array that lacks the
\* role. 'Access denied. No roles found.' is kept for a req.user that is
\* absent or whose roles are missing or no array.
C6_EmptyIsDenied ==
    AdminDeniedCase =>
        /\ passed = <<>>
        /\ res = <<Response(403, Message("Access denied."))>>

\* checkRole(admin) has answered a req.user with roles [] 'Access denied.'
C6_Witness ==
    /\ AdminDeniedCase
    /\ reqUser[1].roles = RolesArray(<<>>)
    /\ res = <<Response(403, Message("Access denied."))>>

----------------------------------------------------------------------------
(* Properties of login and of the token round trip *)

\* The login handler has answered the request being served.
LoginDone == req.route = "POST_auth_login" /\ pc = 0 /\ chain # <<>>

\* C7: login answers 200 with {token: {id, roles, token}} on success; 401
\* with {message} and no token when the service throws a ReferenceError; and
\* 500 with the fixed body {message: 'Internal server error'} on any other
\* failure.
C7_LoginResponses ==
    LoginDone =>
        /\ Len(res) = 1
        /\ IF Returned(call.ret)
           THEN /\ res[1].status = 200
                /\ res[1].body.kind = "json"
                /\ DOMAIN res[1].body.data[1] = {"token"}
                /\ DOMAIN res[1].body.data[1].token = {"id", "roles", "token"}
                /\ res[1].body.data[1].token = call.ret.v[1]
                /\ res[1].body.data[1].token.token \in issued
           ELSE /\ res[1].body.kind = "message"
                /\ res[1].body.data = <<>>
                /\ IF call.ret.name = "ReferenceError"
                   THEN /\ res[1].status = 401
                        /\ res[1].body.message = call.ret.message
                   ELSE /\ res[1].status = 500
                        /\ res[1].body.message = "Internal server error"

\* A login whose body has no password has failed inside bcrypt.compare and
\* been answered 500.
C7_Witness ==
    /\ LoginDone
    /\ ~Returned(call.ret)
    /\ call.ret.name # "ReferenceError"
    /\ res = <<Response(500, Message("Internal server error"))>>

\* The secret both sides use: JWT_SECRET, or 'defaultSecret' when it is
\* unset or empty.
ServerSecret ==
    IF jwtSecretEnv = NULL \/ jwtSecretEnv[1] = "" THEN "defaultSecret" ELSE jwtSecretEnv[1]

\* The stored user a login body names.
UserOf(email) == users[CHOOSE i \in 1..Len(users) : users[i].email = email]

\* A token that login has just issued carries the id and roles of the user
\* who logged in and is signed with the server's secret.
IssuedForUser ==
    (LoginDone /\ Returned(call.ret)) =>
        LET token == call.ret.v[1].token
            user == UserOf(call.input.email)
        IN /\ token.id = user._id
           /\ token.roles = RolesArray(user.roles)
           /\ token.key = ServerSecret

\* No issued token verifies under a secret that is not the server's.
OtherSecretFails ==
    \A j \in issued : \A secret \in (SigningKeys \cup {""}) \ {ServerSecret} :
        ~JwtVerify(<<Tok(j)>>, secret, now).ok

\* authMiddleware has handled a request that presents the issued token j.
Presented(j) ==
    /\ j \in issued
    /\ req.route \in ProtectedRoutes
    /\ req.authorization = Bearer(j)
    /\ pc # 1

Accepted(j) ==
    /\ res = <<>> \/ passed # <<>>
    /\ Len(passed) >= 1
    /\ passed[1] = "authMiddleware"
    /\ reqUser # NULL
    /\ reqUser[1].id = j.id
    /\ reqUser[1].roles = j.roles

\* C8 as stated: a token made by generateToken carries exactly the user's
\* {id, roles}; verifying it with the same secret succeeds and authMiddleware
\* attaches the same id and roles; verifying it with another secret fails;
\* the two sides resolve the secret alike, so a token issued by login is
\* accepted by authMiddleware in the same configuration.
C8_RoundTripAlways ==
    /\ IssuedForUser
    /\ OtherSecretFails
    /\ \A j \in issued : Presented(j) => Accepted(j)

\* C8 amended: as stated, but the token is accepted only until it expires:
\* generateToken signs with expiresIn '1h', and from one hour after issuance
\* on authMiddleware answers the same token 403 'Invalid token.' under the
\* same secret.
C8_RoundTripUntilExpiry ==
    /\ IssuedForUser
    /\ OtherSecretFails
    /\ \A j \in issued :
          Presented(j) =>
              IF now < j.iat + 1
              THEN Accepted(j)
              ELSE /\ res = <<Response(403, Message("Invalid token."))>>
                   /\ reqUser = NULL
                   /\ passed = <<>>

\* A token issued by login under the default secret has been accepted.
C8_Witness ==
    /\ jwtSecretEnv = Some("")
    /\ \E j \in issued : Presented(j) /\ Accepted(j) /\ j.key = "defaultSecret"

----------------------------------------------------------------------------
(* Properties of the services *)

\* The step is a call of the service operation op.
CallOf(op) == served' = served + 1 /\ call'.op = op

\* C9: userService.create fails with AlreadyExists ('User already exists')
\* when the email is already stored, without hashing anything and without
\* creating a record; otherwise it stores the user with the password hashed,
\* never the plaintext, leaves the caller's input as it was, and returns the
\* created user without a password field.
C9_UserCreate ==
    [][CallOf("userService.create") =>
          LET userInput == call'.input
              taken == \E i \in 1..Len(users) : users[i].email = userInput.email
          IN IF taken
             THEN /\ call'.ret = Throw("ReferenceError", "User already exists")
                  /\ call'.hashed = <<>>
                  /\ users' = users
             ELSE /\ Len(users') = Len(users) + 1
                  /\ SubSeq(users', 1, Len(users)) = users
                  /\ users'[Len(users')].email = userInput.email
                  /\ users'[Len(users')].name = userInput.name
                  /\ users'[Len(users')].password = "bcrypt(" \o userInput.password \o ")"
                  /\ users'[Len(users')].password # userInput.password
                  /\ call'.hashed = <<userInput.password>>
                  /\ call'.arg = userInput
                  /\ Returned(call'.ret)
                  /\ "password" \notin DOMAIN call'.ret.v[1]
                  /\ call'.ret.v[1]._id = users'[Len(users')]._id
                  /\ call'.ret.v[1].email = userInput.email]_vars

\* A user has been created and stored with the hash of the password.
C9_Witness ==
    /\ call.op = "userService.create"
    /\ Returned(call.ret)
    /\ Len(users) = 3
    /\ users[3].email = call.input.email
    /\ users[3].password = "bcrypt(Secret12)"
    /\ call.arg.password = "Secret12"

\* C10: creating a restaurant whose nit equals that of an existing active
\* restaurant fails with AlreadyExists ('Restaurant already exist') and
\* leaves the stored restaurants unchanged.
C10_RestaurantNitTaken ==
    [][CallOf("restaurantService.create") =>
          \A i \in 1..Len(restaurants) :
              (restaurants[i].deletedAt = NULL /\ restaurants[i].nit = call'.input.nit) =>
                  /\ call'.ret = Throw("ReferenceError", "Restaurant already exist")
                  /\ restaurants' = restaurants]_vars

\* A second restaurant with the nit of a stored, active one has been refused.
C10_Witness ==
    /\ call.op = "restaurantService.create"
    /\ call.ret = Throw("ReferenceError", "Restaurant already exist")
    /\ \E i \in 1..Len(restaurants) :
          /\ restaurants[i].deletedAt = NULL
          /\ restaurants[i].nit = call.input.nit
          /\ restaurants[i].name # call.input.name

----------------------------------------------------------------------------
(* One controller handler on one request, as Express calls it once the     *)
(* gates of its route have passed, on a database that earlier service      *)
(* calls have left.                                                        *)

Db(us, rs, vs) == [users |-> us, restaurants |-> rs, reservations |-> vs]

\* The database after one more service call, made at hour 0.
AfterRestaurantCreate(db, restaurantInput) ==
    [db EXCEPT !.restaurants = restaurantService_create(@, restaurantInput, 0).store]

AfterReservationCreate(db, reservationInput) ==
    [db EXCEPT !.reservations =
        reservationService_create(db.users, db.restaurants, @, reservationInput, 0).store]

AfterUserDelete(db, id) ==
    [db EXCEPT !.users = userService_delete(@, id, 0).store]

AfterRestaurantDelete(db, id) ==
    [db EXCEPT !.restaurants = restaurantService_delete(@, id, 0).store]

AfterReservationDelete(db, id) ==
    [db EXCEPT !.reservations = reservationService_delete(@, id, 0).store]

SeededDb == Db(Seed(<<>>, 0), <<>>, <<>>)

DbOneRestaurant ==
    AfterRestaurantCreate(SeededDb,
        [name |-> "Sazon", address |-> "Cra 1", city |-> "Cali", nit |-> "900-1",
         phone |-> "5551"])

DbOneReservation ==
    AfterReservationCreate(DbOneRestaurant,
        [date |-> "2025-01-01", hour |-> "08:30PM", restaurantId |-> 1, userId |-> 2,
         userQuantity |-> 2, status |-> "pending"])

\* Databases that sequences of service calls on the seeded store produce.
StoredDbs ==
    {SeededDb, DbOneRestaurant, DbOneReservation,
     AfterReservationDelete(DbOneReservation, 1),
     AfterRestaurantDelete(DbOneReservation, 1),
     AfterUserDelete(AfterRestaurantDelete(DbOneRestaurant, 1), 2)}

\* The request passes every validation array its route mounts.
PassesValidation(route, request) ==
    \A i \in 1..Len(RouteChain(route)) :
        RouteChain(route)[i].mw = "validationChains" =>
            ArrayErrors(ValidationArrays[RouteChain(route)[i].arg], request) = <<>>

\* Bodies that reach a handler: those of Bodies, and for a reservation create
\* ids that no validator looks at (a string that is no ObjectId).
HandlerBodies(route) ==
    Bodies(route) \cup
    (IF route = "POST_reservations"
     THEN {[date |-> "2025-01-01", hour |-> "08:30PM", restaurantId |-> r, userId |-> u,
            userQuantity |-> 2, status |-> "pending"] :
              r \in {0, 1}, u \in {0, 2}}
     ELSE {})

InitCtl ==
    /\ \E db \in StoredDbs :
          /\ users = db.users
          /\ restaurants = db.restaurants
          /\ reservations = db.reservations
    /\ now \in 0..MaxTime
    /\ jwtSecretEnv = NULL
    /\ issued = {}
    /\ \E route \in ProtectedRoutes :
       \E params \in Params(route), body \in HandlerBodies(route) :
          /\ req = [route |-> route, authorization |-> NULL, params |-> params,
                    body |-> body, errors |-> <<>>]
          /\ PassesValidation(route, req)
          /\ chain = <<RouteChain(route)[Len(RouteChain(route))]>>
    /\ pc = 1
    /\ reqUser = NULL
    /\ res = <<>>
    /\ passed = <<>>
    /\ verified = <<>>
    /\ storeOps = 0
    /\ call = NoCall
    /\ served = 1
    /\ inflight = <<>>
    /\ startup = Started
    /\ resultCalls = <<>>

NextCtl ==
    \/ userController_create
    \/ userController_getAll
    \/ userController_getOne
    \/ userController_update
    \/ userController_delete
    \/ restaurantController_create
    \/ restaurantController_getAll
    \/ restaurantController_getOne
    \/ restaurantController_update
    \/ restaurantController_delete
    \/ reservationController_create
    \/ reservationController_getAll
    \/ reservationController_getOne
    \/ reservationController_update
    \/ reservationController_delete
    \/ reservationController_getByUserId
    \/ reservationController_getByRestaurantId

SpecCtl == InitCtl /\ [][NextCtl]_vars

----------------------------------------------------------------------------
(* Properties of the entity services and controllers *)

\* The id is well formed and a record of the collection has it.
Stored(coll, id) == id \in 1..Len(coll)

\* The id is well formed and no record of the collection has it.
Missing(coll, id) == id >= 1 /\ id \notin 1..Len(coll)

SoftDeleteStep(handler, entity, before, after) ==
    In(handler) =>
        LET id == req.params.id IN
        /\ Len(after) = Len(before)
        /\ \A i \in 1..Len(before) : after[i]._id = before[i]._id
        /\ IF id \in 1..Len(before)
           THEN /\ call'.ret = Return(TRUE)
                /\ after[id].deletedAt # NULL
                /\ \A i \in 1..Len(before) : i # id => after[i] = before[i]
                /\ res' = <<Response(204, Empty)>>
           ELSE /\ call'.ret = Return(FALSE)
                /\ after = before
                /\ res' = <<Response(404, Message(entity \o " with id " \o ToString(id)
                                                  \o " not found"))>>

\* C12: for users, restaurants and reservations delete(id) returns true and
\* sets deletedAt to a non-null timestamp when a record has the id, returns
\* false and changes nothing when none has, and never removes a record. Over
\* HTTP DELETE answers 204 with no body on an existing id and 404 with
\* {message: '<Entity> with id <id> not found'} on a nonexistent one.
C12_SoftDelete ==
    [][/\ SoftDeleteStep("userController.delete", "User", users, users')
       /\ SoftDeleteStep("restaurantController.delete", "Restaurant",
                         restaurants, restaurants')
       /\ SoftDeleteStep("reservationController.delete", "Reservation",
                         reservations, reservations')]_vars

\* DELETE of the stored restaurant has answered 204 and stamped the record.
C12_Witness ==
    /\ req.route = "DELETE_restaurants_id"
    /\ res = <<Response(204, Empty)>>
    /\ call.ret = Return(TRUE)
    /\ Len(restaurants) = 1
    /\ restaurants[1].deletedAt = Some(now)
    /\ now = MaxTime

\* The list holds, once each, exactly the records of the collection whose
\* deletedAt is null.
ListsActive(list, coll) ==
    /\ \A i \in 1..Len(coll) :
          coll[i].deletedAt = NULL <=> \E j \in 1..Len(list) : list[j]._id = coll[i]._id
    /\ \A j \in 1..Len(list) : \E i \in 1..Len(coll) : coll[i]._id = list[j]._id
    /\ \A j, k \in 1..Len(list) : list[j]._id = list[k]._id => j = k

\* C13: after any sequence of create, update and delete operations, getAll()
\* of the user, restaurant and reservation services returns exactly the
\* stored records of that entity whose deletedAt is null.
C13_GetAllActive ==
    /\ call.op = "userService.getAll" =>
          Returned(call.ret) /\ ListsActive(call.ret.v[1], users)
    /\ call.op = "restaurantService.getAll" =>
          Returned(call.ret) /\ ListsActive(call.ret.v[1], restaurants)
    /\ call.op = "reservationService.getAll" =>
          Returned(call.ret) /\ ListsActive(call.ret.v[1], reservations)

\* getAll has listed the one active restaurant of two stored.
C13_Witness ==
    /\ call.op = "restaurantService.getAll"
    /\ Len(restaurants) = 2
    /\ restaurants[1].deletedAt # NULL
    /\ restaurants[2].deletedAt = NULL
    /\ Len(call.ret.v[1]) = 1
    /\ call.ret.v[1][1]._id = 2


\* The id names a stored record that has been soft-deleted.
SoftDeleted(coll, id) == Stored(coll, id) /\ coll[id].deletedAt # NULL

\* C14: after a restaurant is soft-deleted, restaurantService.getById of its
\* id returns null and GET /api/restaurants/:id answers 404 (and getAll does
\* not list it).  The code looks the id up with findById, which has no
\* deletedAt filter.
C14_DeletedRestaurantNotFound ==
    /\ (call.op = "restaurantService.getById" /\ SoftDeleted(restaurants, call.input)) =>
          /\ call.ret = Return(NULL)
          /\ res = <<Response(404, NotFound("Restaurant", call.input))>>
    /\ (call.op = "restaurantService.getAll" /\ Returned(call.ret)) =>
          \A j \in 1..Len(call.ret.v[1]) :
             ~SoftDeleted(restaurants, call.ret.v[1][j]._id)


\* The list holds the stored reservation with this id, as stored but for the
\* populated references.
Lists(list, id) ==
    \E j \in 1..Len(list) :
        /\ list[j]._id = id
        /\ list[j].deletedAt = reservations[id].deletedAt

\* C15: a soft-deleted reservation is not listed by reservationService.getAll()
\* but is returned by getById(id), by getByUserId(its userId) and by
\* getByRestaurantId(its restaurantId).
C15_DeletedReservationReads ==
    \A id \in 1..Len(reservations) :
        SoftDeleted(reservations, id) =>
            /\ call.op = "reservationService.getAll" =>
                  Returned(call.ret) /\ ~Lists(call.ret.v[1], id)
            /\ (call.op = "reservationService.getById" /\ call.input = id) =>
                  /\ Returned(call.ret)
                  /\ call.ret.v[1] # NULL
                  /\ Lists(call.ret.v[1], id)
                  /\ res = <<Response(200, Json(call.ret.v[1][1]))>>
            /\ (call.op = "reservationService.getByUserId"
                  /\ call.input = reservations[id].userId) =>
                  Returned(call.ret) /\ Lists(call.ret.v[1], id)
            /\ (call.op = "reservationService.getByRestaurantId"
                  /\ call.input = reservations[id].restaurantId) =>
                  Returned(call.ret) /\ Lists(call.ret.v[1], id)

\* GET /api/reservations/1 has answered 200 with the soft-deleted reservation.
C15_Witness ==
    /\ call.op = "reservationService.getById"
    /\ call.input = 1
    /\ SoftDeleted(reservations, 1)
    /\ Len(res) = 1
    /\ res[1].status = 200
    /\ res[1].body.data[1].deletedAt # NULL


\* The record with this id has the patch's fields set and the fields of
\* frame kept; every other record is as before.
UpdateEffect(before, after, id, patch, frame) ==
    /\ Len(after) = Len(before)
    /\ \A i \in 1..Len(before) : i # id => after[i] = before[i]
    /\ DOMAIN after[id] = DOMAIN before[id]
    /\ \A f \in DOMAIN before[id] :
          IF Has(patch, f) THEN after[id][f] = patch[f]
          ELSE f \in frame => after[id][f] = before[id][f]

\* The record as update() returns it: users without the password.
Shown(doc) == IF Has(doc, "password") THEN Without(doc, "password") ELSE doc

\* The patch carries a value of the unique field that another stored record,
\* soft-deleted or not, already has.
Duplicates(before, id, patch, unique) ==
    /\ Has(patch, unique)
    /\ \E i \in 1..Len(before) : i # id /\ before[i][unique] = patch[unique]

\* update(id, patch) as the claim states it: only the patch's fields change.
UpdateOnlyPatch(op, before, after) ==
    CallOf(op) =>
        LET id == call'.input.id
            patch == call'.input.patch
        IN IF Stored(before, id)
           THEN /\ UpdateEffect(before, after, id, patch, DOMAIN before[id])
                /\ call'.ret = Return(Some(Shown(after[id])))
           ELSE call'.ret = Return(NULL) /\ after = before

\* update(id, patch) with the schema's part: updatedAt is set to the time of
\* the call, and a patch that duplicates the unique field is refused.
UpdateStep(op, before, after, unique) ==
    CallOf(op) =>
        LET id == call'.input.id
            patch == call'.input.patch
        IN IF ~Stored(before, id)
           THEN call'.ret = Return(NULL) /\ after = before
           ELSE IF Duplicates(before, id, patch, unique)
           THEN /\ call'.ret = Throw("MongoServerError", "E11000 duplicate key")
                /\ after = before
           ELSE /\ UpdateEffect(before, after, id, patch,
                                DOMAIN before[id] \ {"updatedAt"})
                /\ after[id].updatedAt = now
                /\ call'.ret = Return(Some(Shown(after[id])))

\* C16 as stated: update(id, patch) of each entity service changes only the
\* fields named in the patch, only on the record with that id, and returns
\* that record in its post-update state; with no such record it returns null
\* and the store is unchanged.
C16_UpdateOnlyPatch ==
    [][/\ UpdateOnlyPatch("userService.update", users, users')
       /\ UpdateOnlyPatch("restaurantService.update", restaurants, restaurants')
       /\ UpdateOnlyPatch("reservationService.update", reservations, reservations')]_vars

\* C16 amended: update(id, patch) changes, on the record with that id only,
\* the fields named in the patch and updatedAt (set to the time of the call),
\* leaves every other field (deletedAt, nit, password, ...) and every other
\* record unchanged and returns the record in its post-update state; with no
\* such record it returns null and the store is unchanged; a patch whose
\* email (users) or nit (restaurants) equals another stored record's is
\* refused by the store's unique index: the call throws and the store is
\* unchanged.
C16_UpdateFrame ==
    [][/\ UpdateStep("userService.update", users, users', "email")
       /\ UpdateStep("restaurantService.update", restaurants, restaurants', "nit")
       /\ UpdateStep("reservationService.update", reservations, reservations', "_id")]_vars

\* A restaurant created at hour 0 and soft-deleted was renamed at hour 1: the
\* name and updatedAt changed, nit and deletedAt did not.
C16_Witness ==
    /\ call.op = "restaurantService.update"
    /\ call.input = [id |-> 1, patch |-> [name |-> "Brasa"]]
    /\ Returned(call.ret)
    /\ now = 1
    /\ Len(restaurants) = 1
    /\ restaurants[1].name = "Brasa"
    /\ restaurants[1].updatedAt = 1
    /\ restaurants[1].deletedAt = Some(0)
    /\ restaurants[1].nit = "900-1"


\* No two records of the collection carry the same value of the field.
UniqueIn(coll, field) ==
    \A i, j \in 1..Len(coll) : coll[i][field] = coll[j][field] => i = j

\* C17: after any sequence of service-level create, update and delete
\* operations run one at a time, no two stored users have the same email and
\* no two stored restaurants have the same nit.
C17_UniqueKeys ==
    /\ UniqueIn(users, "email")
    /\ UniqueIn(restaurants, "nit")

\* Two restaurants are stored and an update that would have given the second
\* the nit of the first has been refused.
C17_Witness ==
    /\ call.op = "restaurantService.update"
    /\ call.input = [id |-> 2, patch |-> [nit |-> "900-1"]]
    /\ ~Returned(call.ret)
    /\ Len(restaurants) = 2
    /\ restaurants[1].nit = "900-1"
    /\ restaurants[2].nit # "900-1"


\* A getOne or update handler: one call of the service with the path's id,
\* 404 with the not-found message exactly when it returns null, 200 with the
\* entity when it returns a record.
FoundOr404Step(handler, op, entity) ==
    In(handler) =>
        LET id == req.params.id IN
        /\ call'.op = op
        /\ call'.input = id
        /\ res' = <<Response(404, NotFound(entity, id))>> <=> call'.ret = Return(NULL)
        /\ (Returned(call'.ret) /\ call'.ret # Return(NULL)) =>
              res' = <<Response(200, Json(call'.ret.v[1][1]))>>
        /\ Len(res') = 1

DomainFailure(ret) == ~Returned(ret) /\ ret.name = "ReferenceError"

\* A create handler as the claim states it: 400 with a message on a domain
\* failure, 500 on other failures only.
Create400Step(handler) ==
    In(handler) =>
        /\ DomainFailure(call'.ret) =>
              res'[1].status = 400 /\ res'[1].body.kind = "message"
        /\ res'[1].status = 500 => ~Returned(call'.ret) /\ ~DomainFailure(call'.ret)

\* A create handler: the response the client gets is 201 with the created
\* record, this status and message on a domain failure, 500 with the error on
\* any other failure.
CreateStep(handler, status, message) ==
    In(handler) =>
        /\ Returned(call'.ret) => res' = <<Response(201, Json(call'.ret.v[1]))>>
        /\ DomainFailure(call'.ret) => res'[1] = Response(status, Message(message))
        /\ (~Returned(call'.ret) /\ ~DomainFailure(call'.ret)) =>
              res' = <<Response(500, ErrorBody(call'.ret))>>

\* C20 as stated: on a domain existence failure (ReferenceError) of the
\* service call, the create handlers of the user, restaurant and reservation
\* controllers alike answer 400 with a short message; only other failures are
\* answered 500.
C20_CreateAnswers400 ==
    [][/\ Create400Step("userController.create")
       /\ Create400Step("restaurantController.create")
       /\ Create400Step("reservationController.create")]_vars

\* C20 amended: on a ReferenceError of the service call the restaurant create
\* handler answers 400 'Restaurant already exist' and the reservation create
\* handler 400 'Restaurant or User not found', while the user create handler
\* answers 404 with the error's own message; any other failure is answered
\* 500 with the error, success 201 with the created record.
C20_CreateAnswers ==
    [][/\ CreateStep("userController.create", 404, call'.ret.message)
       /\ CreateStep("restaurantController.create", 400, "Restaurant already exist")
       /\ CreateStep("reservationController.create", 400, "Restaurant or User not found")
      ]_vars

\* POST /api/users with a stored email has been answered 404.
C20_Witness ==
    /\ call.op = "userService.create"
    /\ call.ret = Throw("ReferenceError", "User already exists")
    /\ res = <<Response(404, Message("User already exists"))>>


-----------------------------------------------------------------------------
(* Concurrent creates. Each create() in progress stands at one of its      *)
(* awaits: the existence lookup, bcrypt.hash (users), Model.create; the    *)
(* event loop runs the continuations of different calls in any order.      *)

\* A create() that has just been called.
Entry(entity, input) ==
    [entity |-> entity, input |-> input, pc |-> "exists", newUser |-> NULL,
     ret |-> Return(NULL), creates |-> 0]

Entries ==
    {Entry("user", userInput) : userInput \in UserInputs}
    \cup {Entry("restaurant", restaurantInput) : restaurantInput \in RestaurantInputs}

Awaits(p, entity, position) ==
    inflight[p].entity = entity /\ inflight[p].pc = position

Resume(p, entry) ==
    /\ inflight' = [inflight EXCEPT ![p] = entry]
    /\ UNCHANGED <<reservations, now, jwtSecretEnv, issued, chain, pc, req, reqUser, res,
                   passed, verified, storeOps, call, served, startup, resultCalls>>

\* RestaurantService.create up to RestaurantModel.create: the lookup resolves.
restaurantService_create_exists ==
    \E p \in DOMAIN inflight :
        /\ Awaits(p, "restaurant", "exists")
        /\ LET restaurantExists ==
                   \E i \in 1..Len(restaurants) :
                       restaurants[i].nit = inflight[p].input.nit
           IN Resume(p, IF restaurantExists
                        THEN [inflight[p] EXCEPT
                                 !.pc = "done",
                                 !.ret = Throw("ReferenceError", "Restaurant already exist")]
                        ELSE [inflight[p] EXCEPT !.pc = "create"])
        /\ UNCHANGED <<users, restaurants>>

\* RestaurantService.create: RestaurantModel.create resolves or rejects.
restaurantService_create_create ==
    \E p \in DOMAIN inflight :
        /\ Awaits(p, "restaurant", "create")
        /\ LET c == RestaurantModelCreate(restaurants, inflight[p].input, now) IN
           /\ restaurants' = c.store
           /\ Resume(p, [inflight[p] EXCEPT
                            !.pc = "done",
                            !.ret = IF Returned(c.r) THEN Return(c.doc[1]) ELSE c.r,
                            !.creates = @ + 1])
        /\ UNCHANGED users

\* UserService.create up to bcrypt.hash: findByEmail resolves.
userService_create_findByEmail ==
    \E p \in DOMAIN inflight :
        /\ Awaits(p, "user", "exists")
        /\ LET userExists == findByEmail(users, inflight[p].input.email, FALSE)
               copy == JsonClone(inflight[p].input)
           IN Resume(p, IF userExists # NULL
                        THEN [inflight[p] EXCEPT
                                 !.pc = "done",
                                 !.ret = Throw("ReferenceError", "User already exists")]
                        ELSE IF Has(copy, "password") /\ copy.password # ""
                        THEN [inflight[p] EXCEPT !.pc = "hash", !.newUser = Some(copy)]
                        ELSE [inflight[p] EXCEPT !.pc = "create", !.newUser = Some(copy)])
        /\ UNCHANGED <<users, restaurants>>

\* UserService.create: bcrypt.hash resolves.
userService_create_hash ==
    \E p \in DOMAIN inflight :
        /\ Awaits(p, "user", "hash")
        /\ Resume(p, [inflight[p] EXCEPT
                         !.pc = "create",
                         !.newUser = Some([@[1] EXCEPT !.password = BcryptHash(@)])])
        /\ UNCHANGED <<users, restaurants>>

\* UserService.create: UserModel.create resolves or rejects.
userService_create_create ==
    \E p \in DOMAIN inflight :
        /\ Awaits(p, "user", "create")
        /\ LET createdUser == UserModelCreate(users, inflight[p].newUser[1], now) IN
           /\ users' = createdUser.store
           /\ Resume(p, [inflight[p] EXCEPT
                            !.pc = "done",
                            !.ret = IF Returned(createdUser.r)
                                    THEN Return(Without(createdUser.doc[1], "password"))
                                    ELSE createdUser.r,
                            !.creates = @ + 1])
        /\ UNCHANGED restaurants

InitRace ==
    /\ users = Seed(<<>>, 0)
    /\ restaurants \in {<<>>, DbOneRestaurant.restaurants}
    /\ reservations = <<>>
    /\ now = 0
    /\ jwtSecretEnv = NULL
    /\ issued = {}
    /\ chain = <<>>
    /\ pc = 0
    /\ req = NoRequest
    /\ reqUser = NULL
    /\ res = <<>>
    /\ passed = <<>>
    /\ verified = <<>>
    /\ storeOps = 0
    /\ call = NoCall
    /\ served = 0
    /\ inflight \in [1..MaxInflight -> Entries]
    /\ startup = Started
    /\ resultCalls = <<>>

NextRace ==
    \/ restaurantService_create_exists
    \/ restaurantService_create_create
    \/ userService_create_findByEmail
    \/ userService_create_hash
    \/ userService_create_create
    \/ Tick

SpecRace == InitRace /\ [][NextRace]_vars

\* A record with the key of this create() (nit, email) is stored.
KeyStored(entry) ==
    IF entry.entity = "user"
    THEN \E i \in 1..Len(users) : users[i].email = entry.input.email
    ELSE \E i \in 1..Len(restaurants) : restaurants[i].nit = entry.input.nit

PassedCheck(entry) == entry.pc \in {"hash", "create"} \/ entry.creates = 1

\* What a step does to one create() in progress.
RaceStep(a, b) ==
    \* the lookup is decided by the store as it is then, whatever the other
    \* calls are doing: refused iff a record with the key is stored
    /\ (a.pc = "exists" /\ b.pc # "exists") =>
          /\ b.creates = 0
          /\ IF KeyStored(a)
             THEN b.pc = "done" /\ b.ret.name = "ReferenceError"
             ELSE PassedCheck(b)
    \* a call that passed the lookup goes on to Model.create, once
    /\ (PassedCheck(a) /\ b.pc = "done" /\ a.pc # "done") =>
          /\ a.pc = "create"
          /\ b.creates = 1
          /\ IF KeyStored(a)
             THEN b.ret = Throw("MongoServerError", "E11000 duplicate key")
             ELSE Returned(b.ret)
    \* no retry: a finished call stays as it is
    /\ a.pc = "done" => b = a
    /\ b.creates <= 1

\* C18: two creates with the same nit (or email) that run concurrently can
\* both complete their existence lookup before either record is written:
\* each lookup is decided by the store alone, so both pass, and both go on
\* to the store's create call, each once; the service takes no lock and does
\* not retry (the second create call is left to the store, whose unique
\* index refuses it).
C18_CheckThenCreateRace ==
    [][\A p \in DOMAIN inflight : RaceStep(inflight[p], inflight'[p])]_vars

\* Both creates with nit 900-1 have passed the lookup and stand before
\* RestaurantModel.create; no restaurant is stored.
C18_Witness ==
    /\ DOMAIN inflight = 1..MaxInflight
    /\ \A p \in {1, 2} :
          /\ Awaits(p, "restaurant", "create")
          /\ inflight[p].input.nit = "900-1"
    /\ restaurants = <<>>


-----------------------------------------------------------------------------
(* The process from its start: connectionDB.ts builds the promise db        *)
(* (connect, seed, catch), index.ts listens in db.then.                     *)

\* The accounts connectionDB.ts seeds, in its order.
SeedAccounts ==
    <<[name |-> "Carlos", email |-> "admin@example.com", plain |-> "Carlos123",
       roles |-> <<UserRole.ADMIN>>],
      [name |-> "Camila", email |-> "user@example.com", plain |-> "Camila123",
       roles |-> <<UserRole.USER>>]>>

\* The two versions of the seed step: admin only, admin and user.
Variants == {"adminOnly", "adminAndUser"}

LastAccount(variant) == IF variant = "adminOnly" THEN 1 ELSE 2

Starting(variant, runs) ==
    [pc |-> "connect", variant |-> variant, account |-> 0, connected |-> FALSE,
     seeded |-> FALSE, listening |-> FALSE, runs |-> runs]

Boot(next) ==
    /\ startup' = next
    /\ UNCHANGED <<restaurants, reservations, now, jwtSecretEnv, issued, chain, pc, req,
                   reqUser, res, passed, verified, storeOps, call, served, inflight,
                   resultCalls>>

\* The seed step goes on after account k: the next account, or the end of
\* the async callback.
AfterAccount(k) ==
    IF k < LastAccount(startup.variant)
    THEN [startup EXCEPT !.pc = "findOne", !.account = k + 1]
    ELSE [startup EXCEPT !.pc = "then", !.account = 0, !.seeded = TRUE]

\* mongoose.connect resolves, or rejects (no MONGO_URI, store unreachable).
db_connect ==
    /\ startup.pc = "connect"
    /\ \/ Boot([startup EXCEPT !.pc = "findOne", !.account = 1, !.connected = TRUE])
       \/ Boot([startup EXCEPT !.pc = "catch"])
    /\ UNCHANGED users

\* A faulty variant: the seed step without the if (!admin) / if (!user) test.
db_findOne_noTest ==
    /\ startup.pc = "findOne"
    /\ Boot([startup EXCEPT !.pc = "hash"])
    /\ UNCHANGED users

\* await UserModel.findOne({email}) resolves.
db_findOne ==
    /\ startup.pc = "findOne"
    /\ LET k == startup.account
           found == \E i \in 1..Len(users) : users[i].email = SeedAccounts[k].email
       IN Boot(IF found THEN AfterAccount(k) ELSE [startup EXCEPT !.pc = "hash"])
    /\ UNCHANGED users

\* await bcrypt.hash(plain, 10) resolves.
db_hash ==
    /\ startup.pc = "hash"
    /\ Boot([startup EXCEPT !.pc = "create"])
    /\ UNCHANGED users

\* await UserModel.create({...}) resolves or rejects.
db_create ==
    /\ startup.pc = "create"
    /\ LET k == startup.account
           a == SeedAccounts[k]
           c == UserModelCreate(users, [name |-> a.name, email |-> a.email,
                                        password |-> BcryptHash(a.plain),
                                        roles |-> a.roles], now)
       IN /\ users' = c.store
          /\ Boot(IF Returned(c.r) THEN AfterAccount(k)
                  ELSE [startup EXCEPT !.pc = "catch"])

\* A store call of the seed step rejects (the connection is lost).
db_reject ==
    /\ startup.pc \in {"findOne", "create"}
    /\ Boot([startup EXCEPT !.pc = "catch", !.connected = FALSE])
    /\ UNCHANGED users

\* .catch((error) => console.error(error)): db is fulfilled all the same.
db_catch ==
    /\ startup.pc = "catch"
    /\ Boot([startup EXCEPT !.pc = "then", !.account = 0])
    /\ UNCHANGED users

\* db.then(() => app.listen(port, ...))
db_then_listen ==
    /\ startup.pc = "then"
    /\ Boot([startup EXCEPT !.pc = "listening", !.listening = TRUE])
    /\ UNCHANGED users

\* The process is stopped and started again.
restart ==
    /\ startup.pc = "listening"
    /\ Idle
    /\ startup.runs < MaxStartups
    /\ Boot(Starting(startup.variant, startup.runs + 1))
    /\ UNCHANGED users

\* Requests are served once the process listens on a connected store.
Serving == startup.listening /\ startup.connected

InitBoot ==
    /\ users = <<>>
    /\ restaurants = <<>>
    /\ reservations = <<>>
    /\ now = 0
    /\ jwtSecretEnv = NULL
    /\ issued = {}
    /\ chain = <<>>
    /\ pc = 0
    /\ req = NoRequest
    /\ reqUser = NULL
    /\ res = <<>>
    /\ passed = <<>>
    /\ verified = <<>>
    /\ storeOps = 0
    /\ call = NoCall
    /\ served = 0
    /\ inflight = <<>>
    /\ \E variant \in Variants : startup = Starting(variant, 1)
    /\ resultCalls = <<>>

NextBoot ==
    \/ db_connect
    \/ db_findOne
    \/ db_hash
    \/ db_create
    \/ db_reject
    \/ db_catch
    \/ db_then_listen
    \/ restart
    \/ Serving /\ call_userService_create
    \/ Serving /\ call_userService_update
    \/ Serving /\ call_userService_delete
    \/ Tick

SpecBoot == InitBoot /\ [][NextBoot]_vars

\* C21: in every execution the start of listening is preceded by an
\* established store connection and a completed seed step.  (The promise db
\* ends in a catch, so db.then runs app.listen after a failed connect too.)
C21_ListenAfterSeed ==
    startup.listening => startup.connected /\ startup.seeded


\* The entry of the 400 body for one validation error.
ErrorEntry(error) ==
    IF Has(error, "type") /\ error.type = "field"
    THEN [field |-> error.path, message |-> error.msg, value |-> error.value]
    ELSE [field |-> "unknown", message |-> error.msg, value |-> NULL]

\* C22: handleValidationErrors calls next, sends nothing and does not read
\* the error list when the validation result is empty; otherwise it answers
\* 400 with {message: 'Validation errors', errors} and does not call next,
\* errors holding one entry per validation error in the same order: {field:
\* path, message, value} for an error of type 'field', {field: 'unknown',
\* message, value: undefined} for any other; the request is not modified.
C22_HandleValidationErrors ==
    [][At("handleValidationErrors") =>
          /\ req' = req
          /\ IF req.errors = <<>>
             THEN /\ passed' = Append(passed, "handleValidationErrors")
                  /\ res' = res
                  /\ resultCalls' = Append(resultCalls, "isEmpty")
             ELSE /\ passed' = passed
                  /\ pc' = 0
                  /\ Len(res') = Len(res) + 1
                  /\ LET sent == res'[Len(res')] IN
                     /\ sent.status = 400
                     /\ sent.body.message = "Validation errors"
                     /\ Len(sent.body.data) = Len(req.errors)
                     /\ \A i \in 1..Len(req.errors) :
                           sent.body.data[i] = ErrorEntry(req.errors[i])]_vars

\* A field error followed by an error without type has been answered 400
\* with the entries 'email' and 'unknown'; next was not called.
C22_Witness ==
    /\ chain = <<Mw("handleValidationErrors", "")>>
    /\ Len(req.errors) = 2
    /\ ~Has(req.errors[2], "type")
    /\ passed = <<>>
    /\ Len(res) = 1
    /\ res[1].status = 400
    /\ res[1].body.data[1] = [field |-> "email", message |-> "Email is not valid",
                              value |-> Some("invalid-email")]
    /\ res[1].body.data[2] = [field |-> "unknown", message |-> "Email check failed",
                              value |-> NULL]


\* The stored users with this email.
WithEmail(email) == {i \in 1..Len(users) : users[i].email = email}

NotAuthorized == Throw("ReferenceError", "Not Authorized")

\* C23: authService.login returns {id, roles, token} only when a user with
\* the given email exists and the supplied password matches that user's
\* stored hash, with the id and roles of that user; it fails with the same
\* error 'Not Authorized' for an unknown email and for a wrong password,
\* compares no password when the email is unknown, and issues no token on
\* either failure.
C23_Login ==
    [][In("authController.login") =>
          LET userLogin == req.body
              ret == call'.ret
          IN /\ call'.op = "authService.login"
             /\ Returned(ret) =>
                   /\ Has(userLogin, "password")
                   /\ \E i \in WithEmail(userLogin.email) :
                         /\ users[i].password = BcryptHash(userLogin.password)
                         /\ ret.v[1].id = users[i]._id
                         /\ ret.v[1].roles = users[i].roles
                         /\ ret.v[1].token.id = users[i]._id
                         /\ ret.v[1].token.roles = RolesArray(users[i].roles)
                   /\ issued' = issued \cup {ret.v[1].token}
             /\ WithEmail(userLogin.email) = {} =>
                   ret = NotAuthorized /\ ~call'.compared
             /\ (Has(userLogin, "password") /\ WithEmail(userLogin.email) # {}
                   /\ \A i \in WithEmail(userLogin.email) :
                         users[i].password # BcryptHash(userLogin.password)) =>
                   ret = NotAuthorized /\ call'.compared
             /\ ~Returned(ret) => issued' = issued]_vars

\* A login with the admin's email and another account's password has failed
\* after the comparison, a token issued earlier being the only one.
C23_Witness ==
    /\ call.op = "authService.login"
    /\ call.input = [email |-> "admin@example.com", password |-> "Camila123"]
    /\ call.ret = NotAuthorized
    /\ call.compared
    /\ Cardinality(issued) = 1
    /\ res = <<Response(401, Message("Not Authorized"))>>


\* C24: after delete(id) of a user, a login with that user's email and
\* correct password answers 401 and issues no token.  (findByEmail has no
\* deletedAt filter and login does not look at deletedAt.)
C24_DeletedLoginRefused ==
    (/\ call.op = "authService.login"
     /\ Has(call.input, "password")
     /\ \E i \in WithEmail(call.input.email) :
           /\ users[i].deletedAt # NULL
           /\ users[i].password = BcryptHash(call.input.password)) =>
        /\ ~Returned(call.ret)
        /\ res = <<Response(401, Message(call.ret.message))>>
        /\ issued = {}


\* The accounts the running version of the seed step seeds.
Seeded == 1..LastAccount(startup.variant)

\* The user record the seed step creates for an account.
IsSeedRecord(doc, a) ==
    /\ doc.name = a.name
    /\ doc.email = a.email
    /\ doc.roles = a.roles
    /\ doc.password = BcryptHash(a.plain)
    /\ doc.password # a.plain
    /\ doc.deletedAt = NULL

\* C25: the seed step creates the default admin account (admin@example.com,
\* roles {admin}, password stored as a hash) only when no user with that
\* email is stored, and likewise the default user account in the version
\* that seeds it; so after any number of startups, whatever was done to the
\* store in between, at most one user record has a seed email.
C25_SeedIdempotent ==
    [][/\ (startup.pc = "create" /\ startup' # startup) =>
             /\ WithEmail(SeedAccounts[startup.account].email) = {}
             /\ startup'.pc # "catch" =>
                   /\ Len(users') = Len(users) + 1
                   /\ SubSeq(users', 1, Len(users)) = users
                   /\ IsSeedRecord(users'[Len(users')], SeedAccounts[startup.account])
       /\ (startup.pc \in {"connect", "findOne", "hash", "catch", "then"}) =>
             users' = users
       /\ (~startup.seeded /\ startup'.seeded) =>
             \A k \in Seeded : Cardinality(WithEmail(SeedAccounts[k].email)') = 1
       /\ \A k \in 1..Len(SeedAccounts) :
             Cardinality(WithEmail(SeedAccounts[k].email)') <= 1]_vars

\* The second startup has completed its seed step on a store whose admin
\* account had been soft-deleted: the account was found and none was created.
C25_Witness ==
    /\ startup.runs = 2
    /\ startup.seeded
    /\ Len(users) = LastAccount(startup.variant)
    /\ users[1].email = "admin@example.com"
    /\ users[1].deletedAt # NULL


\* C26: every controller handler invocation sends exactly one response, also
\* when the service call of a create handler raises a ReferenceError: after
\* the 400 no second response is sent.  (The 400 branch of the restaurant
\* and reservation create handlers has no return, so res.status(500).json
\* runs after it.)
C26_OneResponse ==
    HandlerRan => Len(res) = 1


-----------------------------------------------------------------------------
(* Reservation creates in progress while users and restaurants are created, *)
(* soft-deleted and reservations updated: ReservationService.create stands  *)
(* at one of its three awaits.                                               *)

ReservationEntry(reservationInput) ==
    [Entry("reservation", reservationInput) EXCEPT !.pc = "findUser"]

\* A faulty variant: the user lookup is made but its result not tested.
reservationService_create_findUser_noTest ==
    \E p \in DOMAIN inflight :
        /\ Awaits(p, "reservation", "findUser")
        /\ Resume(p, [inflight[p] EXCEPT !.pc = "findRestaurant"])
        /\ UNCHANGED <<users, restaurants>>

\* ReservationService.create: await UserModel.findById(userId) resolves.
reservationService_create_findUser ==
    \E p \in DOMAIN inflight :
        /\ Awaits(p, "reservation", "findUser")
        /\ LET userExists == FindById(users, inflight[p].input.userId) IN
           Resume(p, IF ~Returned(userExists)
                     THEN [inflight[p] EXCEPT !.pc = "done", !.ret = userExists]
                     ELSE IF userExists.v[1] = NULL
                     THEN [inflight[p] EXCEPT
                              !.pc = "done",
                              !.ret = Throw("ReferenceError", "User not found")]
                     ELSE [inflight[p] EXCEPT !.pc = "findRestaurant"])
        /\ UNCHANGED <<users, restaurants>>

\* ReservationService.create: await RestaurantModel.findById(restaurantId)
\* resolves.
reservationService_create_findRestaurant ==
    \E p \in DOMAIN inflight :
        /\ Awaits(p, "reservation", "findRestaurant")
        /\ LET restaurantExists == FindById(restaurants, inflight[p].input.restaurantId) IN
           Resume(p, IF ~Returned(restaurantExists)
                     THEN [inflight[p] EXCEPT !.pc = "done", !.ret = restaurantExists]
                     ELSE IF restaurantExists.v[1] = NULL
                     THEN [inflight[p] EXCEPT
                              !.pc = "done",
                              !.ret = Throw("ReferenceError", "Restaurant not found")]
                     ELSE [inflight[p] EXCEPT !.pc = "create"])
        /\ UNCHANGED <<users, restaurants>>

\* ReservationService.create: ReservationModel.create resolves or rejects.
reservationService_create_create ==
    \E p \in DOMAIN inflight :
        /\ Awaits(p, "reservation", "create")
        /\ LET c == ReservationModelCreate(reservations, inflight[p].input, now) IN
           /\ reservations' = c.store
           /\ inflight' = [inflight EXCEPT ![p] =
                  [@ EXCEPT !.pc = "done",
                            !.ret = IF Returned(c.r) THEN Return(c.doc[1]) ELSE c.r,
                            !.creates = @ + 1]]
        /\ UNCHANGED <<users, restaurants, now, jwtSecretEnv, issued, chain, pc, req,
                       reqUser, res, passed, verified, storeOps, call, served, startup,
                       resultCalls>>

InitRefs ==
    /\ users = Seed(<<>>, 0)
    /\ restaurants \in {<<>>, DbOneRestaurant.restaurants}
    /\ reservations = <<>>
    /\ now = 0
    /\ jwtSecretEnv = NULL
    /\ issued = {}
    /\ chain = <<>>
    /\ pc = 0
    /\ req = NoRequest
    /\ reqUser = NULL
    /\ res = <<>>
    /\ passed = <<>>
    /\ verified = <<>>
    /\ storeOps = 0
    /\ call = NoCall
    /\ served = 0
    /\ inflight \in [1..MaxInflight -> {ReservationEntry(i) : i \in ReservationInputs}]
    /\ startup = Started
    /\ resultCalls = <<>>

NextRefs ==
    \/ reservationService_create_findUser
    \/ reservationService_create_findRestaurant
    \/ reservationService_create_create
    \/ call_userService_create
    \/ call_userService_delete
    \/ call_restaurantService_create
    \/ call_restaurantService_delete
    \/ call_reservationService_update
    \/ call_reservationService_delete
    \/ Tick

SpecRefs == InitRefs /\ [][NextRefs]_vars

\* Every stored reservation refers to a stored user and a stored restaurant.
ReferencesStored(vs, us, rs) ==
    \A i \in 1..Len(vs) : Stored(us, vs[i].userId) /\ Stored(rs, vs[i].restaurantId)

\* A step of one create() in progress: each lookup passes exactly when the
\* id is stored, soft-deleted or not.
ReferenceStep(a, b) ==
    /\ (a.pc = "findUser" /\ b.pc # "findUser") =>
          IF Stored(users, a.input.userId)
          THEN b.pc = "findRestaurant"
          ELSE b.pc = "done" /\ b.ret = Throw("ReferenceError", "User not found")
    /\ (a.pc = "findRestaurant" /\ b.pc # "findRestaurant") =>
          IF Stored(restaurants, a.input.restaurantId)
          THEN b.pc = "create"
          ELSE b.pc = "done" /\ b.ret = Throw("ReferenceError", "Restaurant not found")
    /\ (a.pc = "create" /\ b.pc # "create") =>
          /\ Returned(b.ret)
          /\ reservations' = Append(reservations, b.ret.v[1])
          /\ b.ret.v[1].userId = a.input.userId
          /\ b.ret.v[1].restaurantId = a.input.restaurantId

\* C27: in every reachable state, under any interleaving of service
\* operations whose update patches hold only the declared update fields,
\* every stored reservation's userId and restaurantId refer to records
\* present in the users and restaurants collections, active or soft-deleted;
\* the lookups of reservation create ignore deletedAt, so a reservation can
\* be created for a soft-deleted user or restaurant.
C27_ReferentialIntegrity ==
    [][/\ ReferencesStored(reservations', users', restaurants')
       /\ \A p \in DOMAIN inflight : ReferenceStep(inflight[p], inflight'[p])]_vars

\* A reservation has been created at hour 1 for a user and a restaurant that
\* were both soft-deleted at hour 0.
C27_Witness ==
    \E p \in DOMAIN inflight :
        /\ inflight[p].pc = "done"
        /\ Returned(inflight[p].ret)
        /\ inflight[p].ret.v[1].updatedAt = 1
        /\ users[inflight[p].input.userId].deletedAt = Some(0)
        /\ restaurants[inflight[p].input.restaurantId].deletedAt = Some(0)
        /\ \E i \in 1..Len(reservations) : reservations[i]._id = inflight[p].ret.v[1]._id


\* The fields the update interfaces declare: UserInputUpdate,
\* RestaurantInputUpdate, ReservationInputUpdate.
InputUpdateFields(entity) ==
    CASE entity = "user" -> {"name", "email"}
      [] entity = "restaurant" -> {"name", "address", "city", "phone"}
      [] entity = "reservation" -> {"date", "hour", "userQuantity", "status"}

\* No record leaves the collection or changes its id, and no soft-deleted
\* record becomes active again.
OnlyGrows(before, after) ==
    /\ Len(after) >= Len(before)
    /\ \A i \in 1..Len(before) :
          /\ after[i]._id = before[i]._id
          /\ before[i].deletedAt # NULL => after[i].deletedAt # NULL

\* The list names no soft-deleted record of the collection.
ListsNoDeleted(list, coll) ==
    \A j \in 1..Len(list) : \A i \in 1..Len(coll) :
        list[j]._id = coll[i]._id => coll[i].deletedAt = NULL

\* delete(id) of a soft-deleted record returns true and leaves it deleted.
DeleteAgain(op, before, after) ==
    (CallOf(op) /\ SoftDeleted(before, call'.input)) =>
        /\ call'.ret = Return(TRUE)
        /\ SoftDeleted(after, call'.input)

\* update(id, patch) of a soft-deleted record with a patch of declared fields:
\* the record is returned, still deleted; where refusals is TRUE, a patch
\* that duplicates another record's unique field throws instead.
UpdateDeleted(op, entity, before, after, unique, refusals) ==
    (/\ CallOf(op)
     /\ SoftDeleted(before, call'.input.id)
     /\ DOMAIN call'.input.patch \subseteq InputUpdateFields(entity)) =>
        LET id == call'.input.id IN
        IF refusals /\ Duplicates(before, id, call'.input.patch, unique)
        THEN call'.ret = Throw("MongoServerError", "E11000 duplicate key") /\ after = before
        ELSE /\ call'.ret = Return(Some(Shown(after[id])))
             /\ after[id].deletedAt = before[id].deletedAt

SoftDeleteIrreversible(refusals) ==
    /\ OnlyGrows(users, users')
    /\ OnlyGrows(restaurants, restaurants')
    /\ OnlyGrows(reservations, reservations')
    /\ call'.op = "userService.getAll" => ListsNoDeleted(call'.ret.v[1], users')
    /\ call'.op = "restaurantService.getAll" => ListsNoDeleted(call'.ret.v[1], restaurants')
    /\ call'.op = "reservationService.getAll" =>
          ListsNoDeleted(call'.ret.v[1], reservations')
    /\ DeleteAgain("userService.delete", users, users')
    /\ DeleteAgain("restaurantService.delete", restaurants, restaurants')
    /\ DeleteAgain("reservationService.delete", reservations, reservations')
    /\ UpdateDeleted("userService.update", "user", users, users', "email", refusals)
    /\ UpdateDeleted("restaurantService.update", "restaurant", restaurants, restaurants',
                     "nit", refusals)
    /\ UpdateDeleted("reservationService.update", "reservation", reservations,
                     reservations', "_id", refusals)

\* C28 as stated: through the service operations, with update patches of
\* declared update fields only, the set of record ids of each collection
\* never shrinks, a record whose deletedAt is non-null never has deletedAt
\* null again and so never reappears in getAll(); delete of a soft-deleted
\* record returns true again and update of one returns the record.
C28_SoftDeleteIrreversible == [][SoftDeleteIrreversible(FALSE)]_vars

\* C28 amended: the ids of each collection never shrink, a soft-deleted
\* record never becomes active again and never reappears in getAll(); delete
\* of a soft-deleted record returns true again; update of a soft-deleted
\* record returns the record, still deleted, unless the patch carries an
\* email that another stored user has: then the unique index refuses it, the
\* call throws and the store is unchanged, as for an active record.
C28_SoftDeleteIrreversibleUnlessDuplicate == [][SoftDeleteIrreversible(TRUE)]_vars

\* The seeded admin, soft-deleted at hour 0, was renamed at hour 1: update
\* returned the record, which is still deleted.
C28_Witness ==
    /\ call.op = "userService.update"
    /\ call.input = [id |-> 1, patch |-> [name |-> "Luis"]]
    /\ Returned(call.ret)
    /\ call.ret.v[1] # NULL
    /\ call.ret.v[1][1].deletedAt = Some(0)
    /\ call.ret.v[1][1].updatedAt = 1
    /\ users[1].deletedAt = Some(0)
    /\ users[1].name = "Luis"


----------------------------------------------------------------------------
(* Sessions: a token issued by login is used while user records change *)

\* A login at hour 0 has issued a token to the admin or to the user account.
InitSession ==
    /\ users = Seed(<<>>, 0)
    /\ restaurants = <<>>
    /\ reservations = <<>>
    /\ now = 0
    /\ jwtSecretEnv \in JwtSecrets
    /\ \E k \in 1..Len(users) : issued = {generateToken(users[k], jwtSecretEnv, 0)}
    /\ chain = <<>>
    /\ pc = 0
    /\ req = NoRequest
    /\ reqUser = NULL
    /\ res = <<>>
    /\ passed = <<>>
    /\ verified = <<>>
    /\ storeOps = 0
    /\ call = NoCall
    /\ served = 0
    /\ inflight = <<>>
    /\ startup = Started
    /\ resultCalls = <<>>

\* The application serves requests; between requests, user records are
\* updated and soft-deleted.
NextSession ==
    \/ Next
    \/ call_userService_update
    \/ call_userService_delete

SpecSession == InitSession /\ [][NextSession]_vars

\* The payload jwt.verify decodes from the token.
Claims(j) == [id |-> j.id, roles |-> j.roles, iat |-> j.iat, exp |-> j.exp]

\* The request being served is for a protected route and carries this token.
Carries(j) ==
    /\ req.route \in ProtectedRoutes
    /\ AuthToken(req.authorization) = Some(<<Tok(j)>>)

\* authMiddleware and checkRole on a request carrying the issued token j:
\* decided by the token's id, roles and expiry alone.
GateByClaims(j) ==
    /\ At("authMiddleware") =>
          IF now < j.exp
          THEN /\ reqUser' = Some(Claims(j))
               /\ passed' = Append(passed, "authMiddleware")
               /\ res' = res
          ELSE /\ res' = <<Response(403, Message("Invalid token."))>>
               /\ pc' = 0
    /\ At("checkRole") =>
          /\ reqUser = Some(Claims(j))
          /\ IF Includes(j.roles, chain[pc].arg)
             THEN passed' = Append(passed, "checkRole") /\ res' = res
             ELSE /\ res' = <<Response(403, Message("Access denied."))>>
                  /\ pc' = 0

\* C29: authMiddleware and checkRole decide from the token's own claims
\* alone, never from the store: a token issued before its user is
\* soft-deleted or updated continues to pass both, with the id and roles it
\* had at issuance, on every protected route until it expires.
C29_TokenClaimsAlone ==
    [][\A j \in issued : Carries(j) => GateByClaims(j)]_vars

\* The token of a user soft-deleted after the login has passed authMiddleware
\* and every checkRole of a protected route, and the controller has run.
C29_Witness ==
    \E j \in issued :
        /\ Carries(j)
        /\ users[j.id].deletedAt # NULL
        /\ reqUser = Some(Claims(j))
        /\ \E i \in 1..Len(passed) : passed[i] = "checkRole"
        /\ HandlerRan
        /\ Len(res) = 1
        /\ res[1].status = 200


\* create(input) of a key that a soft-deleted record of the collection holds
\* is refused with this ReferenceError and stores nothing.
KeyReserved(op, before, after, key, message) ==
    (/\ CallOf(op)
     /\ \E i \in 1..Len(before) :
           before[i].deletedAt # NULL /\ before[i][key] = call'.input[key]) =>
        /\ call'.ret = Throw("ReferenceError", message)
        /\ after = before

\* C30: a soft-deleted record keeps its unique key reserved: after a
\* restaurant is soft-deleted a create with the same nit still fails with
\* AlreadyExists ('Restaurant already exist'), and after a user is
\* soft-deleted a user create with the same email still fails with
\* AlreadyExists ('User already exists'); neither existence check filters on
\* deletedAt.
C30_DeletedKeyReserved ==
    [][/\ KeyReserved("restaurantService.create", restaurants, restaurants', "nit",
                      "Restaurant already exist")
       /\ KeyReserved("userService.create", users, users', "email",
                      "User already exists")]_vars

\* A restaurant was created and soft-deleted, and a create with its nit has
\* been refused: the one stored restaurant is the deleted one.
C30_Witness ==
    /\ call.op = "restaurantService.create"
    /\ call.ret = Throw("ReferenceError", "Restaurant already exist")
    /\ Len(restaurants) = 1
    /\ restaurants[1].deletedAt # NULL
    /\ restaurants[1].nit = call.input.nit

====
